---- MODULE Spec2Model ----
(***************************************************************************)
(* The signaling server of the two-party translated voice chat             *)
(* (Server/server.js): the room registry, the socket.io room subscriptions,*)
(* the join / leave / disconnect handlers, the deferred removal of empty   *)
(* rooms, and the send-message handler with its asynchronous translation.  *)
(***************************************************************************)
EXTENDS Integers, Sequences, FiniteSets, TLC

(***************************************************************************)
(* Bounds of the model.                                                    *)
(***************************************************************************)
MaxConns == 3        \* socket connections, ids 1..MaxConns
MaxRooms == 2        \* room ids the uuid generator can draw in SpecRooms
MaxChatRooms == 1    \* room ids the uuid generator can draw in Spec
MaxTimers == 2       \* pending setTimeout callbacks per room id
MaxMsgs == 1         \* send-message events handled in one run of Spec
MaxFifoMsgs == 2     \* send-message events handled in one run of SpecFifo
MaxFifoConns == 2    \* sockets that act in SpecFifo
MaxSfuRooms == 2     \* rooms created in one run of SpecSfu
MaxPeerObjs == 2     \* peer objects constructed in one run of SpecSfu
MaxHandles == 2      \* transports, producers and consumers created in one run
MaxConnects == 2     \* connect requests the relay gets for one transport
MaxSfuConns == 2     \* sockets that act in SpecSfu
MaxClients == 2       \* browser clients in SpecClient
MaxUtterances == 1    \* utterances spoken in one run of SpecClient
MaxMediaHandles == 4 \* transports, producers and consumers in one run of SpecMedia

Conns == 1..MaxConns
RoomIds == 1..MaxRooms
ChatRoomIds == 1..MaxChatRooms
AllRoomIds == RoomIds \cup ChatRoomIds

Null == 0            \* JavaScript null / undefined for ids

Langs == {"en", "es"}         \* languages a join may carry in Spec
RoomLangs == {"en"}           \* languages a join may carry in SpecRooms
DefaultName == "User"
Undefined == "undefined"
NameArgs == {Undefined}       \* userName values a join may carry
PairNameArgs == {Undefined, "Ann"}   \* userName values of SpecPair
TranslateLangs == {"en", "es", "ja"}   \* language codes of SpecTranslate

VARIABLES
  rooms,         \* const rooms = new Map(): roomId -> [host, users]
  socketToRoom,  \* const socketToRoom = new Map(): socket id -> roomId
  joined,        \* socket.io adapter: the named rooms each socket has joined
  connected,     \* which sockets are connected
  timers,        \* pending setTimeout callbacks of leaveRoom, per room id
  msgs,          \* the send-message events handled so far, in order, each with
                 \* the position of its handler (suspended in await or finished)
  out,           \* events delivered to each socket by the last step
  lastOp,        \* the inbound event (or callback) the last step handled
  staleTimers,   \* per room id, how many of its pending callbacks were armed
                 \* before the last successful join of the room; callbacks
                 \* have the same delay, so these are the next ones to run
  call,          \* a call of translateText made on its own: its arguments,
                 \* where it is suspended, the providers it has requested
  sfu,           \* the state of the mediasoup signaling server, a record
  client         \* the browser clients (VoiceChat with its two UserPanels) and
                 \* the events in flight between them and the chat server

server == <<rooms, socketToRoom, joined, connected, timers, msgs, out, lastOp, staleTimers>>

vars == <<rooms, socketToRoom, joined, connected, timers, msgs, out, lastOp, staleTimers, call, sfu, client>>

(***************************************************************************)
(* JavaScript Map with insertion order, as a sequence of user objects.     *)
(***************************************************************************)
MapHas(users, id) == \E i \in 1..Len(users) : users[i].id = id

MapGet(users, id) == users[CHOOSE i \in 1..Len(users) : users[i].id = id]

\* Map.prototype.set: an existing key keeps its position, a new key is appended
MapSet(users, u) ==
  IF MapHas(users, u.id)
    THEN [i \in 1..Len(users) |-> IF users[i].id = u.id THEN u ELSE users[i]]
    ELSE Append(users, u)

MapDeleteKeepsAll(users, id) == users

MapDelete(users, id) == SelectSeq(users, LAMBDA u : u.id # id)

MapKeys(users) == [i \in 1..Len(users) |-> users[i].id]

MembersOf(rs, r) == {rs[r].users[i].id : i \in 1..Len(rs[r].users)}

Members(r) == MembersOf(rooms, r)

(***************************************************************************)
(* socket.io emission.  An event reaches the sockets that are in the       *)
(* addressed adapter room when it is emitted.                              *)
(***************************************************************************)
NoEvents == [c \in Conns |-> <<>>]

Emit(o, targets, e) == [c \in Conns |-> IF c \in targets THEN Append(o[c], e) ELSE o[c]]

\* the same targets are sent each event of a list, in order
EmitEach(o, targets, events) ==
  [c \in Conns |-> IF c \in targets THEN o[c] \o events ELSE o[c]]

\* socket.emit: the socket itself, nothing once it is disconnected
ToSelf(conn, c) == IF conn[c] THEN {c} ELSE {}

\* io.to(roomId)
InRoom(j, r) == {c \in Conns : r \in j[c]}

\* socket.to(roomId): everyone in the room but the emitting socket
ToRoom(j, c, r) == InRoom(j, r) \ {c}

\* socket.to(id): the private room of socket id, but never the emitting socket
ToSocket(conn, c, id) == ToSelf(conn, id) \ {c}

maxUsersOffByOne == 2 + 1

maxUsers == 2

RoomUpdate(users) == [ev |-> "room-update", userCount |-> Len(users), users |-> users]

(***************************************************************************)
(* app.post("/api/rooms"): a fresh id, an empty room without host.         *)
(***************************************************************************)
NewRoom == [host |-> Null, users |-> <<>>]

CreateRoom(roomId) ==
  /\ roomId \notin DOMAIN rooms
  /\ rooms' = [r \in DOMAIN rooms \cup {roomId} |-> IF r = roomId THEN NewRoom ELSE rooms[r]]
  /\ out' = NoEvents
  /\ lastOp' = [op |-> "create-room", conn |-> Null, room |-> roomId]
  /\ UNCHANGED <<socketToRoom, joined, connected, timers, msgs, staleTimers, call, sfu, client>>

(***************************************************************************)
(* socket.on("join-room") and handleVoiceRoomJoin.                         *)
(***************************************************************************)
RoomIsFullOffByOne(room) == Len(room.users) > maxUsers

RoomIsFull(room) == Len(room.users) >= maxUsers

JoinErrorToAll(conn, c) == {x \in Conns : conn[x]}

\* socket.emit("join-error", ...): the caller alone
JoinErrorTargets(conn, c) == ToSelf(conn, c)

JoinError(message) == [ev |-> "join-error", message |-> message]

PartnersJoinedUnnamed(others) ==
  [i \in 1..Len(others) |->
     [ev |-> "partner-joined", partnerId |-> others[i].id,
      partnerLang |-> others[i].language, partnerName |-> DefaultName]]

\* otherUsers.forEach(partner => socket.emit("partner-joined", ...))
PartnersJoined(others) ==
  [i \in 1..Len(others) |->
     [ev |-> "partner-joined", partnerId |-> others[i].id,
      partnerLang |-> others[i].language, partnerName |-> others[i].name]]

handleVoiceRoomJoin(c, roomId, userLang, userName) ==
  IF roomId \notin DOMAIN rooms THEN
    /\ out' = Emit(NoEvents, JoinErrorTargets(connected, c), JoinError("Room not found"))
    /\ UNCHANGED <<rooms, socketToRoom, joined, staleTimers>>
  ELSE IF RoomIsFull(rooms[roomId]) THEN
    /\ out' = Emit(NoEvents, JoinErrorTargets(connected, c), JoinError("Room is full (max 2 users)"))
    /\ UNCHANGED <<rooms, socketToRoom, joined, staleTimers>>
  ELSE
    LET user == [id |-> c, name |-> userName, language |-> userLang]
        users2 == MapSet(rooms[roomId].users, user)
        host2 == IF Len(users2) = 1 THEN c ELSE rooms[roomId].host
        joined2 == [joined EXCEPT ![c] = @ \cup {roomId}]
        o1 == Emit(NoEvents, ToSelf(connected, c),
                   [ev |-> "joined-room", roomId |-> roomId, isHost |-> (host2 = c),
                    partnerConnected |-> (Len(users2) > 1), users |-> users2])
        o2 == IF Len(users2) > 1
                THEN Emit(o1, ToRoom(joined2, c, roomId),
                          [ev |-> "partner-joined", partnerId |-> c,
                           partnerLang |-> userLang, partnerName |-> userName])
                ELSE o1
        others == SelectSeq(users2, LAMBDA u : u.id # c)
        o3 == IF Len(users2) > 1
                THEN EmitEach(o2, ToSelf(connected, c), PartnersJoined(others))
                ELSE o2
        o4 == Emit(o3, InRoom(joined2, roomId), RoomUpdate(users2))
    IN /\ joined' = joined2
       /\ socketToRoom' = [s \in DOMAIN socketToRoom \cup {c} |->
                             IF s = c THEN roomId ELSE socketToRoom[s]]
       /\ rooms' = [rooms EXCEPT ![roomId] = [host |-> host2, users |-> users2]]
       /\ out' = o4
       \* no clearTimeout: the callbacks armed so far stay pending
       /\ staleTimers' = [staleTimers EXCEPT ![roomId] = timers[roomId]]

\* The isVideo branch of the handler is empty: such an event changes and
\* emits nothing, and is not recorded as a join.
JoinRoom(c, roomId, userLang, nameArg, isVideo) ==
  /\ connected[c]
  /\ IF isVideo
       THEN UNCHANGED vars
       ELSE /\ lastOp' = [op |-> "join-room", conn |-> c, room |-> roomId]
            /\ handleVoiceRoomJoin(c, roomId, userLang,
                                   IF nameArg = Undefined THEN DefaultName ELSE nameArg)
            /\ UNCHANGED <<connected, timers, msgs, call, sfu, client>>

(***************************************************************************)
(* leaveRoom, shared by socket.on("leave-room") and socket.on("disconnect")*)
(* j is the adapter state when the handler starts.                         *)
(***************************************************************************)
RoomsAfterLeaveDeleteEmpty(rs, roomId, host2, users2) ==
  IF Len(users2) = 0
    THEN [r \in DOMAIN rs \ {roomId} |-> rs[r]]
    ELSE [rs EXCEPT ![roomId] = [host |-> host2, users |-> users2]]

\* the registry after room.users.delete and the host update: the room stays
RoomsAfterLeave(rs, roomId, host2, users2) ==
  [rs EXCEPT ![roomId] = [host |-> host2, users |-> users2]]

leaveRoom(c, roomId, j) ==
  IF roomId \in DOMAIN rooms THEN
    LET users2 == MapDelete(rooms[roomId].users, c)
        j2 == [j EXCEPT ![c] = @ \ {roomId}]
        o1 == Emit(NoEvents, ToRoom(j2, c, roomId), [ev |-> "partner-left", partnerId |-> c])
        host2 == IF Len(users2) > 0 /\ rooms[roomId].host = c
                   THEN MapKeys(users2)[1]
                   ELSE rooms[roomId].host
    IN /\ rooms' = RoomsAfterLeave(rooms, roomId, host2, users2)
       /\ socketToRoom' = [s \in DOMAIN socketToRoom \ {c} |-> socketToRoom[s]]
       /\ joined' = j2
       /\ IF Len(users2) > 0
            THEN /\ out' = Emit(o1, InRoom(j2, roomId), RoomUpdate(users2))
                 /\ UNCHANGED timers
            ELSE /\ timers[roomId] < MaxTimers
                 /\ timers' = [timers EXCEPT ![roomId] = @ + 1]
                 /\ out' = o1
  ELSE
    /\ out' = NoEvents
    /\ joined' = j
    /\ UNCHANGED <<rooms, socketToRoom, timers>>

\* whether the socket is in the users of the room when the handler starts
WasMember(c, roomId) == roomId \in DOMAIN rooms /\ MapHas(rooms[roomId].users, c)

LeaveRoom(c, roomId) ==
  /\ connected[c]
  /\ lastOp' = [op |-> "leave-room", conn |-> c, room |-> roomId,
                wasMember |-> WasMember(c, roomId)]
  /\ leaveRoom(c, roomId, joined)
  /\ UNCHANGED <<connected, msgs, staleTimers, call, sfu, client>>

\* socket.io empties the socket's adapter rooms before it emits "disconnect"
Disconnect(c) ==
  /\ connected[c]
  /\ connected' = [connected EXCEPT ![c] = FALSE]
  /\ lastOp' = [op |-> "disconnect", conn |-> c,
                room |-> IF c \in DOMAIN socketToRoom THEN socketToRoom[c] ELSE Null,
                wasMember |-> c \in DOMAIN socketToRoom /\ WasMember(c, socketToRoom[c])]
  /\ LET j == [joined EXCEPT ![c] = {}]
     IN IF c \in DOMAIN socketToRoom
          THEN leaveRoom(c, socketToRoom[c], j)
          ELSE /\ out' = NoEvents
               /\ joined' = j
               /\ UNCHANGED <<rooms, socketToRoom, timers>>
  /\ UNCHANGED <<msgs, staleTimers, call, sfu, client>>

(***************************************************************************)
(* The setTimeout callback of leaveRoom.                                   *)
(***************************************************************************)
TimerDeletesUnchecked(rs, roomId) == roomId \in DOMAIN rs

\* rooms.get(roomId)?.users.size === 0
TimerDeletes(rs, roomId) == roomId \in DOMAIN rs /\ Len(rs[roomId].users) = 0

TimerFire(roomId) ==
  /\ timers[roomId] > 0
  /\ timers' = [timers EXCEPT ![roomId] = @ - 1]
  /\ rooms' = IF TimerDeletes(rooms, roomId)
                THEN [r \in DOMAIN rooms \ {roomId} |-> rooms[r]]
                ELSE rooms
  /\ out' = NoEvents
  /\ lastOp' = [op |-> "timer", conn |-> Null, room |-> roomId]
  /\ staleTimers' = [staleTimers EXCEPT ![roomId] = IF @ > 0 THEN @ - 1 ELSE 0]
  /\ UNCHANGED <<socketToRoom, joined, connected, msgs, call, sfu, client>>

(***************************************************************************)
(* Strings are sequences of one-character strings.  NotAString stands for  *)
(* a payload value that is no string (a number, undefined): the client     *)
(* chooses the payload.                                                    *)
(***************************************************************************)
NotAString == <<"#number">>

IsString(t) == t # NotAString

UpperCase == <<"A","B","C","D","E","F","G","H","I","J","K","L","M",
               "N","O","P","Q","R","S","T","U","V","W","X","Y","Z">>
LowerCase == <<"a","b","c","d","e","f","g","h","i","j","k","l","m",
               "n","o","p","q","r","s","t","u","v","w","x","y","z">>

LowerChar(ch) ==
  IF \E i \in 1..Len(UpperCase) : UpperCase[i] = ch
    THEN LowerCase[CHOOSE i \in 1..Len(UpperCase) : UpperCase[i] = ch]
    ELSE ch

\* String.prototype.toLowerCase
ToLowerCase(s) == [i \in 1..Len(s) |-> LowerChar(s[i])]

IsSpace(ch) == ch = " "

RECURSIVE TrimStart(_)
TrimStart(s) == IF s # <<>> /\ IsSpace(Head(s)) THEN TrimStart(Tail(s)) ELSE s

RECURSIVE TrimEnd(_)
TrimEnd(s) ==
  IF s # <<>> /\ IsSpace(s[Len(s)]) THEN TrimEnd(SubSeq(s, 1, Len(s) - 1)) ELSE s

\* String.prototype.trim
Trim(s) == TrimEnd(TrimStart(s))

\* String.prototype.includes
Includes(s, key) ==
  \E i \in 0..(Len(s) - Len(key)) : SubSeq(s, i + 1, i + Len(key)) = key

(***************************************************************************)
(* fallbackTranslation: the built-in dictionary, each table in the order   *)
(* of its object literal.                                                  *)
(***************************************************************************)
DictEnEs == <<
  <<<<"h","e","l","l","o">>,
    <<"h","o","l","a">>>>,
  <<<<"g","o","o","d","b","y","e">>,
    <<"a","d","i","ó","s">>>>,
  <<<<"t","h","a","n","k"," ","y","o","u">>,
    <<"g","r","a","c","i","a","s">>>>,
  <<<<"p","l","e","a","s","e">>,
    <<"p","o","r"," ","f","a","v","o","r">>>>,
  <<<<"y","e","s">>,
    <<"s","í">>>>,
  <<<<"n","o">>,
    <<"n","o">>>>,
  <<<<"h","o","w"," ","a","r","e"," ","y","o","u">>,
    <<"¿","c","ó","m","o"," ","e","s","t","á","s","?">>>>,
  <<<<"w","h","a","t"," ","i","s"," ","y","o","u","r"," ","n","a","m","e">>,
    <<"¿","c","ó","m","o"," ","t","e"," ","l","l","a","m","a","s","?">>>>,
  <<<<"g","o","o","d"," ","m","o","r","n","i","n","g">>,
    <<"b","u","e","n","o","s"," ","d","í","a","s">>>>,
  <<<<"g","o","o","d"," ","n","i","g","h","t">>,
    <<"b","u","e","n","a","s"," ","n","o","c","h","e","s">>>>,
  <<<<"i"," ","l","o","v","e"," ","y","o","u">>,
    <<"t","e"," ","q","u","i","e","r","o">>>>,
  <<<<"w","h","e","r","e"," ","i","s"," ","t","h","e"," ","b","a","t","h","r","o","o","m">>,
    <<"¿","d","ó","n","d","e"," ","e","s","t","á"," ","e","l"," ","b","a","ñ","o","?">>>>,
  <<<<"h","o","w"," ","m","u","c","h"," ","d","o","e","s"," ","t","h","i","s"," ","c","o","s","t">>,
    <<"¿","c","u","á","n","t","o"," ","c","u","e","s","t","a"," ","e","s","t","o","?">>>>,
  <<<<"h","e","l","p">>,
    <<"a","y","u","d","a">>>>,
  <<<<"s","o","r","r","y">>,
    <<"l","o"," ","s","i","e","n","t","o">>>>,
  <<<<"e","x","c","u","s","e"," ","m","e">>,
    <<"d","i","s","c","u","l","p","e">>>>,
  <<<<"w","a","t","e","r">>,
    <<"a","g","u","a">>>>,
  <<<<"f","o","o","d">>,
    <<"c","o","m","i","d","a">>>>,
  <<<<"f","r","i","e","n","d">>,
    <<"a","m","i","g","o">>>>
>>

DictEsEn == <<
  <<<<"h","o","l","a">>,
    <<"h","e","l","l","o">>>>,
  <<<<"a","d","i","ó","s">>,
    <<"g","o","o","d","b","y","e">>>>,
  <<<<"g","r","a","c","i","a","s">>,
    <<"t","h","a","n","k"," ","y","o","u">>>>,
  <<<<"p","o","r"," ","f","a","v","o","r">>,
    <<"p","l","e","a","s","e">>>>,
  <<<<"s","í">>,
    <<"y","e","s">>>>,
  <<<<"n","o">>,
    <<"n","o">>>>,
  <<<<"c","ó","m","o"," ","e","s","t","á","s">>,
    <<"h","o","w"," ","a","r","e"," ","y","o","u">>>>,
  <<<<"c","ó","m","o"," ","t","e"," ","l","l","a","m","a","s">>,
    <<"w","h","a","t"," ","i","s"," ","y","o","u","r"," ","n","a","m","e">>>>,
  <<<<"b","u","e","n","o","s"," ","d","í","a","s">>,
    <<"g","o","o","d"," ","m","o","r","n","i","n","g">>>>,
  <<<<"b","u","e","n","a","s"," ","n","o","c","h","e","s">>,
    <<"g","o","o","d"," ","n","i","g","h","t">>>>
>>

HasTable(sourceLang, targetLang) ==
  \/ sourceLang = "en" /\ targetLang = "es"
  \/ sourceLang = "es" /\ targetLang = "en"

LangDict(sourceLang, targetLang) ==
  IF sourceLang = "en" /\ targetLang = "es" THEN DictEnEs ELSE DictEsEn

\* the tables are object literals: langDict[lowerText] also finds the
\* properties they inherit from Object.prototype whose names are lower case
PrototypeKeys ==
  {<<"c","o","n","s","t","r","u","c","t","o","r">>,
   <<"_","_","p","r","o","t","o","_","_">>}

\* the value of an inherited property: a function or an object, no string
Inherited == <<"#inherited">>

fallbackTranslation(text, sourceLang, targetLang) ==
  LET lowerText == Trim(ToLowerCase(text))
      langDict == LangDict(sourceLang, targetLang)
      exact == {i \in 1..Len(langDict) : langDict[i][1] = lowerText}
      partial == {i \in 1..Len(langDict) : Includes(lowerText, langDict[i][1])}
      First(S) == CHOOSE i \in S : \A j \in S : i <= j
  IN IF ~HasTable(sourceLang, targetLang) THEN text
     ELSE IF exact # {} THEN langDict[First(exact)][2]
     ELSE IF lowerText \in PrototypeKeys THEN Inherited
     ELSE IF partial # {} THEN langDict[First(partial)][2]
     ELSE text

(***************************************************************************)
(* translateText.  The function runs synchronously up to its first await   *)
(* (TranslateStart) and is resumed by the answer of the provider it waits  *)
(* for (TranslateStep).  An answer is either a failure (network error,     *)
(* unparsable body, body without the expected field) or a body whose       *)
(* translated-text field holds t.                                          *)
(***************************************************************************)
Fail == [ok |-> FALSE, translatedText |-> <<>>]
Body(t) == [ok |-> TRUE, translatedText |-> t]

Return(v) == [kind |-> "return", value |-> v, tier |-> 0]
Throw == [kind |-> "throw", value |-> <<>>, tier |-> 0]
Call(n) == [kind |-> "call", value |-> <<>>, tier |-> n]

\* a body whose translated-text field is missing holds undefined there
NoText == <<"#undefined">>

Truthy(t) == t # <<>> /\ t # NoText

TranslateStartNoBlankCheck(text, sourceLang, targetLang) ==
  IF sourceLang = targetLang THEN Return(text)
  ELSE IF ~IsString(text) THEN Throw
  ELSE Call(1)

TranslateStart(text, sourceLang, targetLang) ==
  IF sourceLang = targetLang THEN Return(text)
  ELSE IF ~IsString(text) THEN Throw          \* text.trim is not a function
  ELSE IF Trim(text) = <<>> THEN Return(text)
  ELSE Call(1)

TranslateStepSkipsSecond(tier, reply, text, sourceLang, targetLang) ==
  IF tier = 1 THEN
    IF reply.ok THEN Return(reply.translatedText) ELSE Call(3)
  ELSE IF tier = 2 THEN
    IF reply.ok /\ Truthy(reply.translatedText) THEN Return(reply.translatedText) ELSE Call(3)
  ELSE
    IF reply.ok /\ Truthy(reply.translatedText) THEN Return(reply.translatedText)
    ELSE Return(fallbackTranslation(text, sourceLang, targetLang))

TranslateStep(tier, reply, text, sourceLang, targetLang) ==
  IF tier = 1 THEN
    IF reply.ok THEN Return(reply.translatedText) ELSE Call(2)
  ELSE IF tier = 2 THEN
    IF reply.ok /\ Truthy(reply.translatedText) THEN Return(reply.translatedText) ELSE Call(3)
  ELSE
    IF reply.ok /\ Truthy(reply.translatedText) THEN Return(reply.translatedText)
    ELSE Return(fallbackTranslation(text, sourceLang, targetLang))

(***************************************************************************)
(* socket.on("send-message").  mid is not part of the payload: it names    *)
(* the send-message event an emitted event belongs to.                     *)
(***************************************************************************)
EchoSpeak == FALSE

EchoSpoken(mid, c, sender, message) ==
  [ev |-> "receive-message", mid |-> mid, message |-> message,
   originalLang |-> sender.language, translatedLang |-> sender.language,
   senderId |-> c, isOwnMessage |-> TRUE, shouldSpeak |-> TRUE, isFallback |-> FALSE]

Echo(mid, c, sender, message) ==
  [ev |-> "receive-message", mid |-> mid, message |-> message,
   originalLang |-> sender.language, translatedLang |-> sender.language,
   senderId |-> c, isOwnMessage |-> TRUE, shouldSpeak |-> EchoSpeak, isFallback |-> FALSE]

\* the event for the partner; the catch branch sets no originalMessage
Delivery(mid, c, sender, receiver, text, isFallback, originalMessage) ==
  [ev |-> "receive-message", mid |-> mid, message |-> text,
   originalLang |-> sender.language, translatedLang |-> receiver.language,
   senderId |-> c, isOwnMessage |-> FALSE, shouldSpeak |-> TRUE, isFallback |-> isFallback,
   originalMessage |-> originalMessage]

DeliveredTextOriginal(message, translatedMessage) == message

\* the text the partner is sent once translateText has returned
DeliveredText(message, translatedMessage) == translatedMessage

DeliveryTargetsWithSender(conn, c, receiver) == ToSelf(conn, receiver.id) \cup ToSelf(conn, c)

\* whom the translated message is addressed to: socket.to(receiver.id)
DeliveryTargets(conn, c, receiver) == ToSocket(conn, c, receiver.id)

\* lines 424-445: translateText returned
FanOut(mid, c, sender, receiver, message, translatedMessage) ==
  Emit(Emit(NoEvents, ToSelf(connected, c), Echo(mid, c, sender, message)),
       DeliveryTargets(connected, c, receiver),
       Delivery(mid, c, sender, receiver, DeliveredText(message, translatedMessage), FALSE,
                message))

\* lines 451-477: translateText threw
FanOutFallback(mid, c, sender, receiver, message) ==
  Emit(Emit(NoEvents, ToSelf(connected, c), Echo(mid, c, sender, message)),
       DeliveryTargets(connected, c, receiver),
       Delivery(mid, c, sender, receiver, message, TRUE, NoText))

NoUser == [id |-> Null, name |-> "", language |-> ""]

\* the receive-message events of o, per socket
Got(o) == [c \in Conns |-> Len(SelectSeq(o[c], LAMBDA e : e.ev = "receive-message"))]

\* the originalLang and translatedLang fields of a send-message payload
Payload(originalLang, translatedLang) ==
  [originalLang |-> originalLang, translatedLang |-> translatedLang]

TranslateArgsOfPayload(sender, receiver, payload) ==
  [sourceLang |-> payload.originalLang, targetLang |-> payload.translatedLang]

\* translateText(message, sender.language, receiver.language)
TranslateArgs(sender, receiver, payload) ==
  [sourceLang |-> sender.language, targetLang |-> receiver.language]

MsgRecord(c, roomId, message, payload, sender, receiver, status, tier, o) ==
  [conn |-> c, room |-> roomId, message |-> message, payload |-> payload,
   sender |-> sender, receiver |-> receiver,
   args |-> TranslateArgs(sender, receiver, payload),
   status |-> status, tier |-> tier, got |-> Got(o)]

\* room.users.values().find(user => user.id !== socket.id)
FindReceiver(users, c) ==
  LET others == SelectSeq(users, LAMBDA u : u.id # c)
  IN IF Len(others) = 0 THEN NoUser ELSE others[1]

handleSendMessage(c, roomId, message, payload) ==
  /\ connected[c]
  /\ LET mid == Len(msgs) + 1
         Finish(sender, receiver, status, tier, o) ==
           /\ msgs' = Append(msgs, MsgRecord(c, roomId, message, payload, sender, receiver,
                                             status, tier, o))
           /\ out' = o
     IN /\ lastOp' = [op |-> "send-message", conn |-> c, room |-> roomId, msg |-> mid]
        /\ IF roomId \notin DOMAIN rooms \/ ~MapHas(rooms[roomId].users, c) THEN
             Finish(NoUser, NoUser, "rejected", 0, NoEvents)
           ELSE
             LET sender == MapGet(rooms[roomId].users, c)
                 receiver == FindReceiver(rooms[roomId].users, c)
                 args == TranslateArgs(sender, receiver, payload)
                 start == TranslateStart(message, args.sourceLang, args.targetLang)
             IN IF receiver = NoUser THEN
                  Finish(sender, NoUser, "echoed", 0,
                         Emit(NoEvents, ToSelf(connected, c), Echo(mid, c, sender, message)))
                ELSE IF start.kind = "return" THEN
                  Finish(sender, receiver, "done", 0,
                         FanOut(mid, c, sender, receiver, message, start.value))
                ELSE IF start.kind = "throw" THEN
                  Finish(sender, receiver, "failed", 0,
                         FanOutFallback(mid, c, sender, receiver, message))
                ELSE
                  Finish(sender, receiver, "pending", start.tier, NoEvents)
  /\ UNCHANGED <<rooms, socketToRoom, joined, connected, timers, staleTimers, call, sfu>>

SendMessage(c, roomId, message, payload) ==
  /\ Len(msgs) < MaxMsgs
  /\ handleSendMessage(c, roomId, message, payload)
  /\ UNCHANGED client

SendMessageFifo(c, roomId, message, payload) ==
  /\ Len(msgs) < MaxFifoMsgs
  /\ handleSendMessage(c, roomId, message, payload)
  /\ UNCHANGED client

\* the provider the handler of message mid waits for answers: the handler
\* goes on, on the state of the server
handleProviderReply(mid, reply) ==
  /\ mid \in 1..Len(msgs)
  /\ msgs[mid].status = "pending"
  /\ LET m == msgs[mid]
         step == TranslateStep(m.tier, reply, m.message, m.args.sourceLang, m.args.targetLang)
         o == FanOut(mid, m.conn, m.sender, m.receiver, m.message, step.value)
     IN /\ lastOp' = [op |-> "provider-reply", conn |-> m.conn, room |-> m.room, msg |-> mid,
                      tier |-> m.tier, reply |-> reply]
        /\ IF step.kind = "return"
             THEN /\ msgs' = [msgs EXCEPT ![mid] = [m EXCEPT !.status = "done", !.tier = 0, !.got = Got(o)]]
                  /\ out' = o
             ELSE /\ msgs' = [msgs EXCEPT ![mid] = [m EXCEPT !.tier = step.tier]]
                  /\ out' = NoEvents
  /\ UNCHANGED <<rooms, socketToRoom, joined, connected, timers, staleTimers, call, sfu>>

ProviderReply(mid, reply) ==
  /\ handleProviderReply(mid, reply)
  /\ UNCHANGED client

(***************************************************************************)
(* socket.on("speech-data"): the transcript is passed on to the others in  *)
(* the room as it came.                                                    *)
(***************************************************************************)
\* socket.to(roomId).emit("partner-speech", ...)
PartnerSpeechTargets(j, c, roomId) == ToRoom(j, c, roomId)

PartnerSpeech(c, transcript, language) ==
  [ev |-> "partner-speech", transcript |-> transcript, language |-> language, senderId |-> c]

\* the handler, on the state of the server
handleSpeechData(c, roomId, transcript, language) ==
  /\ connected[c]
  /\ lastOp' = [op |-> "speech-data", conn |-> c, room |-> roomId]
  /\ IF roomId \notin DOMAIN rooms \/ ~MapHas(rooms[roomId].users, c)
       THEN out' = NoEvents
       ELSE out' = Emit(NoEvents, PartnerSpeechTargets(joined, c, roomId),
                        PartnerSpeech(c, transcript, language))
  /\ UNCHANGED <<rooms, socketToRoom, joined, connected, timers, msgs, staleTimers, call, sfu>>

SpeechData(c, roomId, transcript, language) ==
  /\ handleSpeechData(c, roomId, transcript, language)
  /\ UNCHANGED client

(***************************************************************************)
(* The mediasoup signaling server (the second program of                   *)
(* components/VoiceChat.js).  Its state is the record sfu:                 *)
(*   rooms     const rooms = new Map(): room id -> room object             *)
(*   peers     const peers = new Map(): socket id -> peer object           *)
(*   objs      the peer objects constructed so far; a room's peers map and *)
(*             a suspended handler keep referring to an object after       *)
(*             peers has dropped or replaced it                            *)
(*   handles   the transports, producers and consumers created so far      *)
(*   nextRoom  how many room ids uuidv4 has produced                       *)
(*   joined, connected   the socket.io adapter and the live sockets        *)
(*   pending   the handler suspended in an await of a relay call, if any   *)
(*   out, op   events delivered by the last step, and what it handled      *)
(*   handleLimit   how many handles the relay is asked for in one run      *)
(***************************************************************************)
SfuRoomIds == 1..MaxSfuRooms

\* the sockets that send requests in SpecSfu
SfuConns == 1..MaxSfuConns

NoPending == [op |-> "none", conn |-> Null, obj |-> Null, room |-> Null, transport |-> Null]

SfuInit ==
  [rooms |-> <<>>, peers |-> <<>>, objs |-> <<>>, handles |-> <<>>, nextRoom |-> 0,
   joined |-> [c \in Conns |-> {}], connected |-> [c \in Conns |-> TRUE],
   pending |-> NoPending, out |-> NoEvents,
   op |-> [op |-> "init", conn |-> Null], handleLimit |-> MaxHandles]

PutKey(f, k, v) == [x \in DOMAIN f \cup {k} |-> IF x = k THEN v ELSE f[x]]

DropKey(f, k) == [x \in DOMAIN f \ {k} |-> f[x]]

\* the callback (acknowledgement) of a request
Ok == [ev |-> "callback", success |-> TRUE, error |-> ""]

Failure(error) == [ev |-> "callback", success |-> FALSE, error |-> error]

\* callback(...) reaches the socket that sent the request, if still connected
Callback(c, e) == Emit(NoEvents, ToSelf(sfu.connected, c), e)

SfuOp(op, c) == [op |-> op, conn |-> c]

\* a request that names a transport (transportId) or a peer (peerId)
SfuOpOn(op, c, arg) == [op |-> op, conn |-> c, arg |-> arg]

\* a handler that answers through its callback and changes nothing else
SfuReject(o, error) ==
  sfu' = [sfu EXCEPT !.out = Callback(o.conn, Failure(error)), !.op = o]

NewPeer(c, roomId, userLang, userName) ==
  [id |-> c, roomId |-> roomId, transports |-> {}, producers |-> {}, consumers |-> {},
   userLang |-> userLang, userName |-> userName]

\* function createRoom(roomId)
createRoom(roomId) ==
  [id |-> roomId, peers |-> <<>>, audioProducers |-> {}, audioConsumers |-> {}]

SfuMembersOf(s, r) == {s.rooms[r].peers[i].id : i \in 1..Len(s.rooms[r].peers)}

SfuMembers(r) == SfuMembersOf(sfu, r)

\* socket.on('create-room'): data.userLang || 'en', data.userName || 'User'
SfuCreateRoom(c) ==
  /\ sfu.connected[c]
  /\ sfu.nextRoom < MaxSfuRooms
  /\ Len(sfu.objs) < MaxPeerObjs
  /\ LET roomId == sfu.nextRoom + 1
         obj == Len(sfu.objs) + 1
         room == [createRoom(roomId) EXCEPT !.peers = MapSet(@, [id |-> c, obj |-> obj])]
     IN sfu' = [sfu EXCEPT
                  !.nextRoom = roomId,
                  !.objs = Append(@, NewPeer(c, roomId, "en", "User")),
                  !.peers = PutKey(@, c, obj),
                  !.rooms = PutKey(@, roomId, room),
                  !.joined[c] = @ \cup {roomId},
                  !.out = Callback(c, [Ok EXCEPT !.error = ""] @@ [roomId |-> roomId]),
                  !.op = SfuOp("create-room", c)]
  /\ UNCHANGED <<server, call, client>>

SfuFull == 2

\* the peers entry of the join callback
PeerInfo(objs, users) ==
  [i \in 1..Len(users) |->
     [id |-> objs[users[i].obj].id, userLang |-> objs[users[i].obj].userLang,
      userName |-> objs[users[i].obj].userName]]

\* socket.on('join-room'): userLang || 'es', userName || 'Partner'
SfuJoinRoom(c, roomId) ==
  /\ sfu.connected[c]
  /\ IF roomId \notin DOMAIN sfu.rooms THEN SfuReject(SfuOp("join-room", c), "Room not found")
     ELSE IF Len(sfu.rooms[roomId].peers) >= SfuFull THEN SfuReject(SfuOp("join-room", c), "Room is full")
     ELSE
       /\ Len(sfu.objs) < MaxPeerObjs
       /\ LET obj == Len(sfu.objs) + 1
              objs2 == Append(sfu.objs, NewPeer(c, roomId, "es", "Partner"))
              users2 == MapSet(sfu.rooms[roomId].peers, [id |-> c, obj |-> obj])
              joined2 == [sfu.joined EXCEPT ![c] = @ \cup {roomId}]
              o1 == Callback(c, Ok @@ [roomId |-> roomId, peers |-> PeerInfo(objs2, users2)])
              o2 == Emit(o1, ToRoom(joined2, c, roomId),
                         [ev |-> "peer-joined", peerId |-> c,
                          userLang |-> Undefined, userName |-> Undefined])
          IN sfu' = [sfu EXCEPT
                       !.objs = objs2,
                       !.peers = PutKey(@, c, obj),
                       !.rooms[roomId].peers = users2,
                       !.joined = joined2,
                       !.out = o2,
                       !.op = SfuOp("join-room", c)]
  /\ UNCHANGED <<server, call, client>>

\* a handler reaches its await of a relay call
Suspend(op, c, obj, room, transport) ==
  [op |-> op, conn |-> c, obj |-> obj, room |-> room, transport |-> transport]

\* peers.get(peerId || socket.id)
CreateTransportTarget(c, peerId) == IF peerId = Null THEN c ELSE peerId

\* socket.on('create-transport'), up to await router.createWebRtcTransport
SfuCreateTransport(c, peerId) ==
  /\ sfu.connected[c]
  /\ LET target == CreateTransportTarget(c, peerId)
     IN IF target \notin DOMAIN sfu.peers THEN SfuReject(SfuOpOn("create-transport", c, peerId), "Peer not found")
        ELSE
          /\ sfu.pending = NoPending
          /\ Len(sfu.handles) < sfu.handleLimit
          /\ sfu' = [sfu EXCEPT
                       !.pending = Suspend("create-transport", c, sfu.peers[target], Null, Null),
                       !.out = NoEvents,
                       !.op = SfuOpOn("create-transport", c, peerId)]
  /\ UNCHANGED <<server, call, client>>

OwnTransportAny(s, c, transportId) ==
  transportId \in 1..Len(s.handles) /\ s.handles[transportId].kind = "transport"

\* peer.transports.get(transportId), peer being peers.get(socket.id)
OwnTransport(s, c, transportId) == transportId \in s.objs[s.peers[c]].transports

\* socket.on('connect-transport'), up to await transport.connect
SfuConnectTransport(c, transportId) ==
  /\ sfu.connected[c]
  /\ IF c \notin DOMAIN sfu.peers THEN SfuReject(SfuOpOn("connect-transport", c, transportId), "Peer not found")
     ELSE IF ~OwnTransport(sfu, c, transportId)
       THEN SfuReject(SfuOpOn("connect-transport", c, transportId), "Transport not found")
     ELSE
       /\ sfu.pending = NoPending
       /\ sfu.handles[transportId].connects < MaxConnects
       /\ sfu' = [sfu EXCEPT
                    !.handles[transportId].connects = @ + 1,
                    !.pending = Suspend("connect-transport", c, sfu.peers[c], Null, transportId),
                    !.out = NoEvents,
                    !.op = SfuOpOn("connect-transport", c, transportId)]
  /\ UNCHANGED <<server, call, client>>

\* socket.on('produce-audio'), up to await transport.produce; without a peer
\* the read of peer.roomId throws and the catch answers
SfuProduce(c, transportId) ==
  /\ sfu.connected[c]
  /\ IF c \notin DOMAIN sfu.peers THEN SfuReject(SfuOpOn("produce-audio", c, transportId), "TypeError")
     ELSE IF sfu.objs[sfu.peers[c]].roomId \notin DOMAIN sfu.rooms
       THEN SfuReject(SfuOpOn("produce-audio", c, transportId), "Peer or room not found")
     ELSE IF ~OwnTransport(sfu, c, transportId)
       THEN SfuReject(SfuOpOn("produce-audio", c, transportId), "Transport not found")
     ELSE
       /\ sfu.pending = NoPending
       /\ Len(sfu.handles) < sfu.handleLimit
       /\ sfu' = [sfu EXCEPT
                    !.pending = Suspend("produce-audio", c, sfu.peers[c],
                                        sfu.objs[sfu.peers[c]].roomId, transportId),
                    !.out = NoEvents,
                    !.op = SfuOpOn("produce-audio", c, transportId)]
  /\ UNCHANGED <<server, call, client>>

CanConsumeIgnored(canConsume) == TRUE

\* router.canConsume({ producerId, rtpCapabilities }): the relay's answer
CanConsume(canConsume) == canConsume

\* socket.on('consume-audio'), up to await transport.consume
SfuConsume(c, transportId, canConsume) ==
  /\ sfu.connected[c]
  /\ IF c \notin DOMAIN sfu.peers THEN SfuReject(SfuOpOn("consume-audio", c, transportId) @@ [can |-> canConsume], "TypeError")
     ELSE IF sfu.objs[sfu.peers[c]].roomId \notin DOMAIN sfu.rooms
       THEN SfuReject(SfuOpOn("consume-audio", c, transportId) @@ [can |-> canConsume], "Peer or room not found")
     ELSE IF ~OwnTransport(sfu, c, transportId)
       THEN SfuReject(SfuOpOn("consume-audio", c, transportId) @@ [can |-> canConsume], "Transport not found")
     ELSE IF ~CanConsume(canConsume)
       THEN SfuReject(SfuOpOn("consume-audio", c, transportId) @@ [can |-> canConsume], "Cannot consume")
     ELSE
       /\ sfu.pending = NoPending
       /\ Len(sfu.handles) < sfu.handleLimit
       /\ sfu' = [sfu EXCEPT
                    !.pending = Suspend("consume-audio", c, sfu.peers[c],
                                        sfu.objs[sfu.peers[c]].roomId, transportId),
                    !.out = NoEvents,
                    !.op = SfuOpOn("consume-audio", c, transportId) @@ [can |-> canConsume]]
  /\ UNCHANGED <<server, call, client>>

\* a transport, producer or consumer of the relay: connects and rejects count
\* the transport.connect calls the relay has received and has rejected
NewHandle(kind, obj, transport) ==
  [kind |-> kind, closed |-> FALSE, connects |-> 0, rejects |-> 0, owner |-> obj,
   transport |-> transport]

AfterRelayErrorClosing(s, p) ==
  IF p.op = "connect-transport"
    THEN [s.handles EXCEPT ![p.transport].rejects = @ + 1, ![p.transport].closed = TRUE]
    ELSE s.handles

\* the catch blocks answer through the callback only: nothing is closed or
\* removed when a relay call rejects
AfterRelayError(s, p) ==
  IF p.op = "connect-transport"
    THEN [s.handles EXCEPT ![p.transport].rejects = @ + 1]
    ELSE s.handles

NewProducerTargetsAll(s, p) == InRoom(s.joined, p.room)

\* socket.to(room.id): the sockets in the adapter room, but the producing one
NewProducerTargets(s, p) == ToRoom(s.joined, p.conn, p.room)

\* the relay answers the call the suspended handler awaits: the handler runs
\* to its end, through the catch block when the relay rejected
SfuRelayReply(ok) ==
  /\ sfu.pending # NoPending
  /\ LET p == sfu.pending
         h == Len(sfu.handles) + 1
         done == [op |-> "relay-reply", conn |-> p.conn, of |-> p.op, ok |-> ok,
                  transport |-> p.transport, room |-> p.room, obj |-> p.obj]
     IN IF ~ok THEN
          sfu' = [sfu EXCEPT !.pending = NoPending, !.op = done,
                             !.handles = AfterRelayError(sfu, p),
                             !.out = Callback(p.conn, Failure("relay"))]
        ELSE IF p.op = "create-transport" THEN
          sfu' = [sfu EXCEPT
                    !.pending = NoPending, !.op = done,
                    !.handles = Append(@, NewHandle("transport", p.obj, Null)),
                    !.objs[p.obj].transports = @ \cup {h},
                    !.out = Callback(p.conn, Ok @@ [id |-> h])]
        ELSE IF p.op = "connect-transport" THEN
          sfu' = [sfu EXCEPT !.pending = NoPending, !.op = done,
                             !.out = Callback(p.conn, Ok)]
        ELSE IF p.op = "produce-audio" THEN
          sfu' = [sfu EXCEPT
                    !.pending = NoPending, !.op = done,
                    !.handles = Append(@, NewHandle("producer", p.obj, p.transport)),
                    !.objs[p.obj].producers = @ \cup {h},
                    !.rooms = IF p.room \in DOMAIN sfu.rooms
                                THEN [@ EXCEPT ![p.room].audioProducers = @ \cup {h}]
                                ELSE @,
                    !.out = Emit(Callback(p.conn, Ok @@ [id |-> h]),
                                 NewProducerTargets(sfu, p),
                                 [ev |-> "new-producer", peerId |-> p.conn,
                                  producerId |-> h, kind |-> "audio"])]
        ELSE
          sfu' = [sfu EXCEPT
                    !.pending = NoPending, !.op = done,
                    !.handles = Append(@, NewHandle("consumer", p.obj, p.transport)),
                    !.objs[p.obj].consumers = @ \cup {h},
                    !.rooms = IF p.room \in DOMAIN sfu.rooms
                                THEN [@ EXCEPT ![p.room].audioConsumers = @ \cup {h}]
                                ELSE @,
                    !.out = Callback(p.conn, Ok @@ [id |-> h])]
  /\ UNCHANGED <<server, call, client>>

\* the handles that close when the transports, producers and consumers of
\* a peer object are closed: closing a transport closes what was made on it
ClosedWith(s, obj) ==
  LET own == s.objs[obj].transports \cup s.objs[obj].producers \cup s.objs[obj].consumers
  IN own \cup {k \in 1..Len(s.handles) : s.handles[k].transport \in s.objs[obj].transports}

\* peer.transports.forEach(close); producers.forEach(close); consumers.forEach(close)
Cleanup(s, obj) ==
  [k \in 1..Len(s.handles) |->
     IF k \in ClosedWith(s, obj) THEN [s.handles[k] EXCEPT !.closed = TRUE] ELSE s.handles[k]]

\* consumer.on('transportclose'): the consumer leaves the consumers of the
\* peer object it was made for
AfterTransportClose(s, obj) ==
  [o \in 1..Len(s.objs) |->
     [s.objs[o] EXCEPT !.consumers =
        {k \in @ : s.handles[k].transport \notin s.objs[obj].transports}]]

\* the common body of socket.on('leave-room') and socket.on('disconnect');
\* j is the adapter state when the handler starts
SfuLeave(op, c, j) ==
  IF c \in DOMAIN sfu.peers THEN
    LET obj == sfu.peers[c]
        r == sfu.objs[obj].roomId
    IN IF r \in DOMAIN sfu.rooms THEN
         LET j2 == [j EXCEPT ![c] = @ \ {r}]
             users2 == MapDelete(sfu.rooms[r].peers, c)
         IN sfu' = [sfu EXCEPT
                      !.joined = j2,
                      !.rooms = IF Len(users2) = 0 THEN DropKey(@, r)
                                ELSE [@ EXCEPT ![r].peers = users2],
                      !.handles = Cleanup(sfu, obj),
                      !.objs = AfterTransportClose(sfu, obj),
                      !.peers = DropKey(@, c),
                      !.connected[c] = (op = "leave-room"),
                      !.out = Emit(NoEvents, ToRoom(j2, c, r), [ev |-> "peer-left", peerId |-> c]),
                      !.op = SfuOp(op, c)]
       ELSE
         sfu' = [sfu EXCEPT !.joined = j, !.peers = DropKey(@, c),
                            !.connected[c] = (op = "leave-room"),
                            !.out = NoEvents, !.op = SfuOp(op, c)]
  ELSE
    sfu' = [sfu EXCEPT !.joined = j, !.connected[c] = (op = "leave-room"),
                       !.out = NoEvents, !.op = SfuOp(op, c)]

SfuLeaveRoom(c) ==
  /\ sfu.connected[c]
  /\ SfuLeave("leave-room", c, sfu.joined)
  /\ UNCHANGED <<server, call, client>>

\* socket.io empties the socket's adapter rooms before it emits 'disconnect'
SfuDisconnect(c) ==
  /\ sfu.connected[c]
  /\ SfuLeave("disconnect", c, [sfu.joined EXCEPT ![c] = {}])
  /\ UNCHANGED <<server, call, client>>

\* io.to(roomId): every socket in the adapter room, the emitter included
SfuMessageTargets(j, roomId) == InRoom(j, roomId)

\* socket.on('send-message') of the mediasoup server: no translation
SfuSendMessage(c, roomId, message, payload) ==
  /\ sfu.connected[c]
  /\ sfu' = [sfu EXCEPT
               !.out = IF roomId \notin DOMAIN sfu.rooms THEN NoEvents
                       ELSE Emit(NoEvents, SfuMessageTargets(sfu.joined, roomId),
                                 [ev |-> "receive-message", message |-> message,
                                  originalLang |-> payload.originalLang,
                                  translatedLang |-> payload.translatedLang,
                                  senderId |-> c]),
               !.op = SfuOpOn("send-message", c, roomId)]
  /\ UNCHANGED <<server, call, client>>

(***************************************************************************)
(* translateText called on its own, one call at a time.                    *)
(***************************************************************************)
Idle == [state |-> "idle", text |-> <<>>, sourceLang |-> "", targetLang |-> "",
         tier |-> 0, value |-> <<>>, calls |-> <<>>, replies |-> <<>>]

\* the call after translateText has run up to its next await or to its end
Advance(k, step) ==
  IF step.kind = "return" THEN [k EXCEPT !.state = "returned", !.tier = 0, !.value = step.value]
  ELSE IF step.kind = "throw" THEN [k EXCEPT !.state = "threw", !.tier = 0]
  ELSE [k EXCEPT !.state = "await", !.tier = step.tier, !.calls = Append(@, step.tier)]

TranslateCall(text, sourceLang, targetLang) ==
  /\ call.state \notin {"await", "hung"}
  /\ call' = Advance([Idle EXCEPT !.text = text, !.sourceLang = sourceLang,
                                   !.targetLang = targetLang],
                     TranslateStart(text, sourceLang, targetLang))
  /\ UNCHANGED <<server, sfu, client>>

\* the provider the call waits for answers
TranslateReply(reply) ==
  /\ call.state = "await"
  /\ call' = Advance([call EXCEPT !.replies = Append(@, reply)],
                     TranslateStep(call.tier, reply, call.text,
                                   call.sourceLang, call.targetLang))
  /\ UNCHANGED <<server, sfu, client>>

\* the provider the call waits for never answers: await fetch(...) is given
\* no timeout and no abort signal, so the promise stays pending and nothing
\* else resumes translateText
ProviderHangs ==
  /\ call.state = "await"
  /\ call' = [call EXCEPT !.state = "hung"]
  /\ UNCHANGED <<server, sfu, client>>

(***************************************************************************)
(* The browser client: the VoiceChat component with its RoomManager and    *)
(* its two UserPanel children ("user1" and "user2"), one client per        *)
(* socket.  Its state is the record client:                                *)
(*   program     which of the repository's servers answers                 *)
(*               translation-request                                       *)
(*   room        VoiceChat's room state (the room id), Null when none      *)
(*   partner     VoiceChat's partner state (the partner's language)        *)
(*   isSpeaking  isSpeakingRef.current of VoiceChat                        *)
(*   outbox      the events a client has emitted that the server has not   *)
(*               handled yet, in order                                     *)
(*   inbox       the events sent to a client that it has not handled yet   *)
(*   translating the translation-request handlers suspended in their await *)
(*   spoken      the calls of speakText made in a client, in order         *)
(*   utterances  the utterances the speech recognition has produced, each  *)
(*               with the client it was spoken in                          *)
(***************************************************************************)
\* setPartner(null): no partner language
NoPartner == ""

ServerJs == "Server/server.js"

PanelServerJs == "components/UserPanel.js"

ClientInitOn(program) ==
  [program |-> program,
   room |-> [c \in Conns |-> Null],
   partner |-> [c \in Conns |-> NoPartner],
   isSpeaking |-> [c \in Conns |-> FALSE],
   outbox |-> [c \in Conns |-> <<>>],
   inbox |-> [c \in Conns |-> <<>>],
   translating |-> <<>>,
   spoken |-> [c \in Conns |-> <<>>],
   utterances |-> <<>>]

ClientInit == ClientInitOn(ServerJs)

Init ==
  /\ rooms = <<>>
  /\ socketToRoom = <<>>
  /\ joined = [c \in Conns |-> {}]
  /\ connected = [c \in Conns |-> TRUE]
  /\ timers = [r \in AllRoomIds |-> 0]
  /\ msgs = <<>>
  /\ out = NoEvents
  /\ lastOp = [op |-> "init", conn |-> Null, room |-> Null]
  /\ staleTimers = [r \in AllRoomIds |-> 0]
  /\ call = Idle
  /\ sfu = SfuInit
  /\ client = ClientInit

(***************************************************************************)
(* Inputs.                                                                 *)
(***************************************************************************)
TxtHello == <<"H","e","l","l","o">>
TxtBlank == <<" ">>
ProvHola == <<"h","o","l","a","!">>
TxtEmpty == <<>>
TxtPadded == <<" ","Y","E","S"," ">>
TxtPhrase == <<"n","o"," ","w","a","t","e","r">>
TxtOther == <<"o","k">>
TxtCtor == <<"C","o","n","s","t","r","u","c","t","o","r">>

Texts == {TxtHello, TxtBlank, NotAString}
Replies == {Fail, Body(<<>>), Body(ProvHola)}
TranslateTexts == Texts \cup {TxtEmpty, TxtPadded, TxtPhrase, TxtOther, TxtCtor}
TranslateReplies == Replies \cup {Body(NoText)}
FifoTexts == {TxtHello}
FifoReplies == {Fail, Body(ProvHola)}
FifoConns == 1..MaxFifoConns
Payloads == {Payload("es", "en"), Payload("ja", "ja")}
FifoPayloads == {Payload("en", "es")}
CrossReplies == {Body(ProvHola)}
\* the language the client of socket c sends with its joins in SpecCross
CrossLang(c) == IF c = 1 THEN "en" ELSE "es"

(***************************************************************************)
(* Spec: the whole server with one room id.                                *)
(***************************************************************************)
Next ==
  \/ \E r \in ChatRoomIds : CreateRoom(r)
  \/ \E c \in Conns, r \in ChatRoomIds, l \in Langs, n \in NameArgs, v \in BOOLEAN :
       JoinRoom(c, r, l, n, v)
  \/ \E c \in Conns, r \in ChatRoomIds : LeaveRoom(c, r)
  \/ \E c \in Conns : Disconnect(c)
  \/ \E r \in ChatRoomIds : TimerFire(r)
  \/ \E c \in Conns, r \in ChatRoomIds, t \in Texts, p \in Payloads : SendMessage(c, r, t, p)
  \/ \E mid \in 1..MaxMsgs, reply \in Replies : ProviderReply(mid, reply)

Spec == Init /\ [][Next]_vars

(***************************************************************************)
(* SpecRooms: the room lifecycle alone, with several room ids.             *)
(***************************************************************************)
NextRooms ==
  \/ \E r \in RoomIds : CreateRoom(r)
  \/ \E c \in Conns, r \in RoomIds, l \in RoomLangs, n \in NameArgs, v \in BOOLEAN :
       JoinRoom(c, r, l, n, v)
  \/ \E c \in Conns, r \in RoomIds : LeaveRoom(c, r)
  \/ \E c \in Conns : Disconnect(c)
  \/ \E r \in RoomIds : TimerFire(r)

SpecRooms == Init /\ [][NextRooms]_vars

(***************************************************************************)
(* SpecFifo: two sockets talking in one room, several messages in flight.  *)
(***************************************************************************)
NextFifo ==
  \/ \E r \in ChatRoomIds : CreateRoom(r)
  \/ \E c \in FifoConns, r \in ChatRoomIds, l \in Langs, n \in NameArgs :
       JoinRoom(c, r, l, n, FALSE)
  \/ \E c \in FifoConns, r \in ChatRoomIds : LeaveRoom(c, r)
  \/ \E c \in FifoConns : Disconnect(c)
  \/ \E c \in FifoConns, r \in ChatRoomIds, t \in FifoTexts, p \in FifoPayloads :
       SendMessageFifo(c, r, t, p)
  \/ \E mid \in 1..MaxFifoMsgs, reply \in FifoReplies : ProviderReply(mid, reply)

SpecFifo == Init /\ [][NextFifo]_vars

(***************************************************************************)
(* SpecPair: the room lifecycle with one room id, with languages and       *)
(* names.                                                                  *)
(***************************************************************************)
NextPair ==
  \/ \E r \in ChatRoomIds : CreateRoom(r)
  \/ \E c \in Conns, r \in ChatRoomIds, l \in Langs, n \in PairNameArgs, v \in BOOLEAN :
       JoinRoom(c, r, l, n, v)
  \/ \E c \in Conns, r \in ChatRoomIds : LeaveRoom(c, r)
  \/ \E c \in Conns : Disconnect(c)
  \/ \E r \in ChatRoomIds : TimerFire(r)

SpecPair == Init /\ [][NextPair]_vars

\* the rooms of SpecPair when every armed setTimeout callback is eventually
\* run by the event loop
SpecReclaim ==
  Init /\ [][NextPair]_vars /\ \A r \in ChatRoomIds : WF_vars(TimerFire(r))

(***************************************************************************)
(* SpecCross: two sockets and two room ids, with texts and transcripts.    *)
(***************************************************************************)
NextCross ==
  \/ \E r \in RoomIds : CreateRoom(r)
  \/ \E c \in FifoConns, r \in RoomIds, n \in NameArgs :
       JoinRoom(c, r, CrossLang(c), n, FALSE)
  \/ \E c \in FifoConns, r \in RoomIds : LeaveRoom(c, r)
  \/ \E c \in FifoConns : Disconnect(c)
  \/ \E r \in RoomIds : TimerFire(r)
  \/ \E c \in FifoConns, r \in RoomIds, t \in FifoTexts, p \in FifoPayloads :
       SendMessage(c, r, t, p)
  \/ \E mid \in 1..MaxMsgs, reply \in CrossReplies : ProviderReply(mid, reply)
  \/ \E c \in FifoConns, r \in RoomIds, t \in FifoTexts, l \in RoomLangs :
       SpeechData(c, r, t, l)

SpecCross == Init /\ [][NextCross]_vars

(***************************************************************************)
(* SpecClient: two browser clients and the chat server between them, from  *)
(* the creation of a room to the speech of the utterances; nobody leaves.  *)
(***************************************************************************)
ClientConns == 1..MaxClients

Panels == {"user1", "user2"}

\* defaultLang of the two UserPanel elements VoiceChat renders
PanelLang(panel) == IF panel = "user1" THEN "en" ELSE "es"

\* the transcript of the n-th utterance
UtteranceTexts == <<TxtHello, TxtOther, TxtPhrase, TxtPadded>>

\* const [speechEnabled, setSpeechEnabled] = useState(true); the socket
\* handlers of VoiceChat are made once, in an effect with no dependencies
SpeechEnabled == TRUE

\* const [autoSpeak, setAutoSpeak] = useState(userType === "user2")
AutoSpeak(panel) == panel = "user2"

\* const [autoTranslate, setAutoTranslate] = useState(true)
AutoTranslate == TRUE

\* socket.emit(...) in a client
ClientEmit(cl, c, events) == [cl EXCEPT !.outbox[c] = @ \o events]

\* what the server sent in a step reaches the clients
Deliver(cl, o) ==
  [cl EXCEPT !.inbox = [c \in Conns |-> IF c \in ClientConns THEN @[c] \o o[c] ELSE <<>>]]

\* RoomManager createRoom: POST /api/rooms, then join-room as "User"
ClientCreateRoom(c, roomId) ==
  /\ c \in ClientConns
  /\ client.room[c] = Null
  /\ client.outbox[c] = <<>> /\ client.inbox[c] = <<>>
  /\ roomId \notin DOMAIN rooms
  /\ rooms' = [r \in DOMAIN rooms \cup {roomId} |-> IF r = roomId THEN NewRoom ELSE rooms[r]]
  /\ out' = NoEvents
  /\ lastOp' = [op |-> "create-room", conn |-> c, room |-> roomId]
  /\ client' = ClientEmit(client, c, <<[ev |-> "join-room", roomId |-> roomId,
                                        userLang |-> "en", userName |-> "User"]>>)
  /\ UNCHANGED <<socketToRoom, joined, connected, timers, msgs, staleTimers, call, sfu>>

\* RoomManager joinRoom: join-room as "Partner"
ClientJoinRoom(c, roomId) ==
  /\ c \in ClientConns
  /\ client.room[c] = Null
  /\ client.outbox[c] = <<>> /\ client.inbox[c] = <<>>
  /\ client' = ClientEmit(client, c, <<[ev |-> "join-room", roomId |-> roomId,
                                        userLang |-> "es", userName |-> "Partner"]>>)
  /\ UNCHANGED <<server, call, sfu>>

\* handleUserSpeech(transcript) of the UserPanel the user speaks in
UserSpeechEvents(cl, c, panel, transcript) ==
  LET language == PanelLang(panel)
      targetLanguage == IF cl.partner[c] # NoPartner THEN cl.partner[c]
                        ELSE IF panel = "user1" THEN "es" ELSE "en"
      send == <<[ev |-> "send-message", roomId |-> cl.room[c], message |-> transcript,
                 originalLang |-> language, translatedLang |-> targetLanguage],
                [ev |-> "speech-data", roomId |-> cl.room[c], transcript |-> transcript,
                 language |-> language]>>
      request == <<[ev |-> "translation-request", text |-> transcript, sourceLang |-> language,
                    targetLang |-> targetLanguage, isForSpeech |-> TRUE]>>
  IN IF AutoTranslate /\ cl.partner[c] # NoPartner THEN send \o request ELSE send

ClientSpeak(c, panel) ==
  /\ c \in ClientConns
  /\ client.room[c] # Null
  /\ Len(client.utterances) < MaxUtterances
  /\ Len(client.utterances) < Len(UtteranceTexts)
  /\ LET transcript == UtteranceTexts[Len(client.utterances) + 1]
     IN client' = [ClientEmit(client, c, UserSpeechEvents(client, c, panel, transcript))
                     EXCEPT !.utterances = Append(@, [by |-> c, text |-> transcript])]
  /\ UNCHANGED <<server, call, sfu>>

\* a translation-request handler reaches its await
TranslationRequest(c, e) ==
  /\ connected[c]
  /\ lastOp' = [op |-> "translation-request", conn |-> c, room |-> Null]
  /\ out' = NoEvents
  /\ UNCHANGED <<rooms, socketToRoom, joined, connected, timers, msgs, staleTimers, call, sfu>>

\* the server takes the next event a client has emitted and runs its handler
ServerHandle(c) ==
  /\ c \in ClientConns
  /\ client.outbox[c] # <<>>
  /\ LET e == Head(client.outbox[c])
         rest == [client EXCEPT !.outbox[c] = Tail(@)]
     IN /\ IF e.ev = "join-room" THEN
             /\ connected[c]
             /\ lastOp' = [op |-> "join-room", conn |-> c, room |-> e.roomId]
             /\ handleVoiceRoomJoin(c, e.roomId, e.userLang, e.userName)
             /\ UNCHANGED <<connected, timers, msgs, call, sfu>>
           ELSE IF e.ev = "send-message" THEN
             handleSendMessage(c, e.roomId, e.message, Payload(e.originalLang, e.translatedLang))
           ELSE IF e.ev = "speech-data" THEN
             handleSpeechData(c, e.roomId, e.transcript, e.language)
           ELSE
             TranslationRequest(c, e)
        /\ client' = Deliver(IF e.ev = "translation-request"
                               THEN [rest EXCEPT !.translating = Append(@, [conn |-> c] @@ e)]
                               ELSE rest, out')

\* translateText returns in a send-message handler
ServerProviderReply(mid, reply) ==
  /\ handleProviderReply(mid, reply)
  /\ client' = Deliver(client, out')

\* the translation-result of server.js (508-551) has no isForSpeech field;
\* the server in UserPanel.js (1428-1493) sends the request's value back.
\* Neither sets isOwnMessage.  A field the event lacks reads as undefined
\* in the client, which is falsy: FALSE here.
TranslationResult(program, req, translated, isFallback) ==
  [ev |-> "translation-result", original |-> req.text, translated |-> translated,
   sourceLang |-> req.sourceLang, targetLang |-> req.targetLang, isFallback |-> isFallback,
   isForSpeech |-> (program = PanelServerJs /\ req.isForSpeech),
   isOwnMessage |-> FALSE]

\* the await of a translation-request handler returns (ok) or throws
ServerTranslationReply(i, ok) ==
  /\ i \in 1..Len(client.translating)
  /\ LET req == client.translating[i]
         e == IF ok THEN TranslationResult(client.program, req, ProvHola, FALSE)
              ELSE TranslationResult(client.program, req,
                                     fallbackTranslation(req.text, req.sourceLang, req.targetLang),
                                     TRUE)
     IN /\ out' = Emit(NoEvents, ToSelf(connected, req.conn), e)
        /\ lastOp' = [op |-> "translation-reply", conn |-> req.conn, room |-> Null]
        /\ client' = Deliver([client EXCEPT !.translating =
                                [k \in 1..(Len(@) - 1) |-> IF k < i THEN @[k] ELSE @[k + 1]]],
                             out')
  /\ UNCHANGED <<rooms, socketToRoom, joined, connected, timers, msgs, staleTimers, call, sfu>>

\* a call of speakText: which handler made it, for which utterance, and
\* whether it started a SpeechSynthesisUtterance
Spoken(by, of, text, started) == [by |-> by, of |-> of, text |-> text, started |-> started]

\* speakText of VoiceChat: nothing while isSpeakingRef.current is set
VoiceChatSpeak(cl, c, by, of, text) ==
  LET starts == SpeechEnabled /\ Trim(text) # <<>> /\ ~cl.isSpeaking[c]
  IN [cl EXCEPT !.spoken[c] = Append(@, Spoken(by, of, text, starts)),
                !.isSpeaking[c] = @ \/ starts]

\* speakText of UserPanel: stopSpeaking(), then speak
UserPanelSpeak(cl, c, by, of, text) ==
  [cl EXCEPT !.spoken[c] = Append(@, Spoken(by, of, text, SpeechEnabled /\ Trim(text) # <<>>))]

\* newSocket.on("receive-message") of VoiceChat
OnReceiveMessage(cl, c, data) ==
  LET isOwnMessage == data.senderId = c
  IN IF ~isOwnMessage /\ data.shouldSpeak /\ SpeechEnabled
       THEN VoiceChatSpeak(cl, c, "receive-message", msgs[data.mid].message, data.message)
       ELSE cl

\* handlePartnerSpeech of the two UserPanels; VoiceChat's own handler logs
\* only.  The panels are mounted while VoiceChat has a room.
OnPartnerSpeech(cl, c, data) ==
  IF cl.room[c] # Null /\ data.senderId # c /\ AutoSpeak("user2") /\ SpeechEnabled
    THEN UserPanelSpeak(cl, c, "partner-speech", data.transcript, data.transcript)
    ELSE cl

\* newSocket.on("translation-result") of VoiceChat, then
\* handleTranslationResult of each mounted UserPanel
OnTranslationResult(cl, c, data) ==
  LET cl1 == IF data.isForSpeech /\ SpeechEnabled
               THEN VoiceChatSpeak(cl, c, "translation-result", data.original, data.translated)
               ELSE cl
      panel == cl.room[c] # Null /\ data.isForSpeech /\ SpeechEnabled
                 /\ ~data.isOwnMessage
      cl2 == IF panel
               THEN UserPanelSpeak(cl1, c, "translation-result", data.original, data.translated)
               ELSE cl1
  IN IF panel
       THEN UserPanelSpeak(cl2, c, "translation-result", data.original, data.translated)
       ELSE cl2

\* the client handles the next event it was sent
ClientReceive(c) ==
  /\ c \in ClientConns
  /\ client.inbox[c] # <<>>
  /\ LET data == Head(client.inbox[c])
         rest == [client EXCEPT !.inbox[c] = Tail(@)]
     IN client' =
          IF data.ev = "joined-room" THEN
            [rest EXCEPT !.room[c] = data.roomId, !.partner[c] = NoPartner]
          ELSE IF data.ev = "partner-joined" THEN [rest EXCEPT !.partner[c] = data.partnerLang]
          ELSE IF data.ev = "partner-left" THEN [rest EXCEPT !.partner[c] = NoPartner]
          ELSE IF data.ev = "receive-message" THEN OnReceiveMessage(rest, c, data)
          ELSE IF data.ev = "partner-speech" THEN OnPartnerSpeech(rest, c, data)
          ELSE IF data.ev = "translation-result" THEN OnTranslationResult(rest, c, data)
          ELSE rest
  /\ UNCHANGED <<server, call, sfu>>

\* utterance.onend or utterance.onerror of VoiceChat's speakText
SpeechEnds(c) ==
  /\ c \in ClientConns
  /\ client.isSpeaking[c]
  /\ client' = [client EXCEPT !.isSpeaking[c] = FALSE]
  /\ UNCHANGED <<server, call, sfu>>

InitClient ==
  /\ rooms = <<>>
  /\ socketToRoom = <<>>
  /\ joined = [c \in Conns |-> {}]
  /\ connected = [c \in Conns |-> TRUE]
  /\ timers = [r \in AllRoomIds |-> 0]
  /\ msgs = <<>>
  /\ out = NoEvents
  /\ lastOp = [op |-> "init", conn |-> Null, room |-> Null]
  /\ staleTimers = [r \in AllRoomIds |-> 0]
  /\ call = Idle
  /\ sfu = SfuInit
  /\ client \in {ClientInitOn(ServerJs), ClientInitOn(PanelServerJs)}

NextClient ==
  \/ \E c \in ClientConns, r \in ChatRoomIds : ClientCreateRoom(c, r)
  \/ \E c \in ClientConns, r \in ChatRoomIds : ClientJoinRoom(c, r)
  \/ \E c \in ClientConns, panel \in Panels : ClientSpeak(c, panel)
  \/ \E c \in ClientConns : ServerHandle(c)
  \/ \E mid \in 1..MaxUtterances, reply \in CrossReplies : ServerProviderReply(mid, reply)
  \/ \E i \in 1..MaxUtterances, ok \in BOOLEAN : ServerTranslationReply(i, ok)
  \/ \E c \in ClientConns : ClientReceive(c)
  \/ \E c \in ClientConns : SpeechEnds(c)

SpecClient == InitClient /\ [][NextClient]_vars

(***************************************************************************)
(* SpecTranslate: translateText and fallbackTranslation as functions of    *)
(* their arguments and of what the providers answer.                       *)
(***************************************************************************)
NextTranslate ==
  \/ \E t \in TranslateTexts, sl \in TranslateLangs, tl \in TranslateLangs :
       TranslateCall(t, sl, tl)
  \/ \E reply \in TranslateReplies : TranslateReply(reply)

SpecTranslate == Init /\ [][NextTranslate]_vars

(***************************************************************************)
(* SpecTranslateLive: translateText with providers that may never answer.  *)
(* A provider that does answer does so eventually, and the event loop then *)
(* resumes the call.                                                       *)
(***************************************************************************)
NextTranslateLive ==
  \/ \E t \in TranslateTexts, sl \in TranslateLangs, tl \in TranslateLangs :
       TranslateCall(t, sl, tl)
  \/ \E reply \in TranslateReplies : TranslateReply(reply)
  \/ ProviderHangs

SpecTranslateLive ==
  /\ Init
  /\ [][NextTranslateLive]_vars
  /\ WF_vars(\E reply \in TranslateReplies : TranslateReply(reply))

(***************************************************************************)
(* SpecSfu: the mediasoup signaling server.                                *)
(***************************************************************************)
NextSfu ==
  \/ \E c \in SfuConns : SfuCreateRoom(c)
  \/ \E c \in SfuConns, r \in SfuRoomIds : SfuJoinRoom(c, r)
  \/ \E c \in SfuConns, peerId \in SfuConns \cup {Null} : SfuCreateTransport(c, peerId)
  \/ \E c \in SfuConns, t \in 1..MaxHandles : SfuConnectTransport(c, t)
  \/ \E ok \in BOOLEAN : SfuRelayReply(ok)
  \/ \E c \in SfuConns : SfuLeaveRoom(c)
  \/ \E c \in SfuConns : SfuDisconnect(c)

SpecSfu == Init /\ [][NextSfu]_vars

(***************************************************************************)
(* SpecSfuChat: rooms and text messages in the mediasoup server, without   *)
(* transports.                                                             *)
(***************************************************************************)
NextSfuChat ==
  \/ \E c \in Conns : SfuCreateRoom(c)
  \/ \E c \in Conns, r \in SfuRoomIds : SfuJoinRoom(c, r)
  \/ \E c \in Conns, r \in SfuRoomIds, t \in FifoTexts, p \in FifoPayloads :
        SfuSendMessage(c, r, t, p)
  \/ \E c \in Conns : SfuLeaveRoom(c)
  \/ \E c \in Conns : SfuDisconnect(c)

SpecSfuChat == Init /\ [][NextSfuChat]_vars

(***************************************************************************)
(* SpecMedia: producing and consuming in the mediasoup server, from the    *)
(* state it is in when socket 1 has created a room, socket 2 has joined    *)
(* it, socket 3 has created a second room, and sockets 1 and 2 have each   *)
(* been given a transport.                                                 *)
(***************************************************************************)
SfuSeed ==
  [SfuInit EXCEPT
     !.nextRoom = 2,
     !.objs = <<[NewPeer(1, 1, "en", "User") EXCEPT !.transports = {1}],
                [NewPeer(2, 1, "es", "Partner") EXCEPT !.transports = {2}],
                NewPeer(3, 2, "en", "User")>>,
     !.peers = <<1, 2, 3>>,
     !.rooms = <<[createRoom(1) EXCEPT !.peers = <<[id |-> 1, obj |-> 1], [id |-> 2, obj |-> 2]>>],
                 [createRoom(2) EXCEPT !.peers = <<[id |-> 3, obj |-> 3]>>]>>,
     !.joined = [c \in Conns |-> IF c \in {1, 2} THEN {1} ELSE IF c = 3 THEN {2} ELSE {}],
     !.handles = <<NewHandle("transport", 1, Null), NewHandle("transport", 2, Null)>>,
     !.out = Emit(NoEvents, {2}, Ok @@ [id |-> 2]),
     !.op = [op |-> "relay-reply", conn |-> 2, of |-> "create-transport", ok |-> TRUE,
             transport |-> Null, room |-> Null, obj |-> 2],
     !.handleLimit = MaxMediaHandles]

InitMedia ==
  /\ rooms = <<>>
  /\ socketToRoom = <<>>
  /\ joined = [c \in Conns |-> {}]
  /\ connected = [c \in Conns |-> TRUE]
  /\ timers = [r \in AllRoomIds |-> 0]
  /\ msgs = <<>>
  /\ out = NoEvents
  /\ lastOp = [op |-> "init", conn |-> Null, room |-> Null]
  /\ staleTimers = [r \in AllRoomIds |-> 0]
  /\ call = Idle
  /\ sfu = SfuSeed
  /\ client = ClientInit

NextMedia ==
  \/ \E c \in Conns : SfuCreateTransport(c, Null)
  \/ \E c \in Conns, t \in 1..MaxMediaHandles : SfuProduce(c, t)
  \/ \E c \in Conns, t \in 1..MaxMediaHandles, can \in BOOLEAN : SfuConsume(c, t, can)
  \/ \E ok \in BOOLEAN : SfuRelayReply(ok)
  \/ \E c \in Conns : SfuLeaveRoom(c)
  \/ \E c \in Conns : SfuDisconnect(c)

SpecMedia == InitMedia /\ [][NextMedia]_vars

(***************************************************************************)
(* Properties.                                                             *)
(***************************************************************************)
EventsIn(o, c, name) == SelectSeq(o[c], LAMBDA e : e.ev = name)

Events(c, name) == EventsIn(out, c, name)

OnlyTo(c, events) == [x \in Conns |-> IF x = c THEN events ELSE <<>>]

RoomsOf(c) == {r \in DOMAIN rooms : c \in Members(r)}

\* C1: in every reachable state every room has at most 2 members, whatever
\* joins, leaves and disconnects came before; a join for the last free slot
\* fills the room and the next one is turned away.
C1_CapacityAtMostTwo ==
  \A r \in DOMAIN rooms :
    /\ Len(rooms[r].users) <= 2
    /\ Cardinality(Members(r)) <= 2

\* a third socket has just been refused by a room that holds two others
C1_Witness ==
  /\ lastOp.op = "join-room"
  /\ lastOp.room \in DOMAIN rooms
  /\ Cardinality(Members(lastOp.room)) = 2
  /\ lastOp.conn \notin Members(lastOp.room)
  /\ Events(lastOp.conn, "join-error") # <<>>

\* C2: no receive-message event that a socket gets for a message it sent
\* itself has shouldSpeak = true, with or without a partner, whether
\* translateText returned or threw.
C2_SenderNeverSpeaksOwn ==
  \A c \in Conns :
    \A i \in 1..Len(out[c]) :
      (out[c][i].ev = "receive-message" /\ out[c][i].senderId = c)
        => out[c][i].shouldSpeak = FALSE

\* a sender has got its echo while its partner got the spoken delivery
C2_Witness ==
  \E c \in Conns, q \in Conns :
    /\ c # q
    /\ \E i \in 1..Len(out[c]) :
         /\ out[c][i].ev = "receive-message"
         /\ out[c][i].senderId = c
         /\ ~out[c][i].shouldSpeak
    /\ \E i \in 1..Len(out[q]) :
         /\ out[q][i].ev = "receive-message"
         /\ out[q][i].senderId = c
         /\ out[q][i].shouldSpeak

\* the send-message event mid has been answered: its handler has finished
Finished(mid) == msgs[mid].status \in {"done", "failed", "echoed", "rejected"}

\* the last step finished the handler of message mid
FinishedNow(mid) ==
  /\ lastOp.op \in {"send-message", "provider-reply"}
  /\ lastOp.msg = mid
  /\ Finished(mid)

\* what translateText returned in the step that finished message mid
Translated(mid) ==
  LET m == msgs[mid]
  IN IF lastOp.op = "send-message" THEN m.message
     ELSE IF lastOp.reply.ok /\ (lastOp.tier = 1 \/ lastOp.reply.translatedText # <<>>)
       THEN lastOp.reply.translatedText
     ELSE fallbackTranslation(m.message, m.sender.language, m.receiver.language)

\* C3 as stated: a text sent while the room has one other member Q reaches Q
\* as exactly one receive-message event; with no other member nobody but
\* the sender gets an event for it.
C3_ExactlyOneDelivery ==
  \A mid \in 1..Len(msgs) :
    LET m == msgs[mid]
    IN (Finished(mid) /\ m.status # "rejected" /\ IsString(m.message)) =>
         IF m.receiver # NoUser
           THEN m.got[m.receiver.id] = 1
           ELSE \A c \in Conns \ {m.conn} : m.got[c] = 0

\* C3 amended: Q gets at most one receive-message event for the text, and
\* exactly one, carrying what translateText returned and shouldSpeak = true,
\* if Q is still connected when the translation completes (none if Q has
\* disconnected meanwhile); no third socket gets an event for it, and with
\* no other member nobody but the sender does.
C3_OneDeliveryIfConnected ==
  \A mid \in 1..Len(msgs) :
    LET m == msgs[mid]
        q == m.receiver.id
    IN (m.status # "rejected" /\ IsString(m.message)) =>
         /\ \A c \in Conns \ {m.conn, q} : m.got[c] = 0
         /\ m.receiver # NoUser => m.got[q] <= 1
         /\ (m.receiver # NoUser /\ FinishedNow(mid)) =>
              IF connected[q]
                THEN /\ m.got[q] = 1
                     /\ Len(Events(q, "receive-message")) = 1
                     /\ Events(q, "receive-message")[1].mid = mid
                     /\ Events(q, "receive-message")[1].message = Translated(mid)
                     /\ Events(q, "receive-message")[1].shouldSpeak
                ELSE m.got[q] = 0
         /\ (m.receiver # NoUser /\ ~Finished(mid)) => m.got[q] = 0

\* the partner has got the provider's translation of a text, which differs
\* from the text that was sent
C3_Witness ==
  \E mid \in 1..Len(msgs) :
    /\ FinishedNow(mid)
    /\ lastOp.op = "provider-reply"
    /\ msgs[mid].receiver # NoUser
    /\ msgs[mid].got[msgs[mid].receiver.id] = 1
    /\ Events(msgs[mid].receiver.id, "receive-message")[1].message # msgs[mid].message

\* C4: no socket id is in the users map of two different rooms.
C4_AtMostOneRoom == \A c \in Conns : Cardinality(RoomsOf(c)) <= 1

\* C5: a room's host, when not null, is one of the room's current users.
C5_HostIsMember ==
  \A r \in DOMAIN rooms : rooms[r].host # Null => rooms[r].host \in Members(r)

FullError == JoinError("Room is full (max 2 users)")
NotFoundError == JoinError("Room not found")
AlreadyError == JoinError("Already in this room")

\* C6: a join-room for a room that has 2 members changes nothing (rooms,
\* hosts, socketToRoom, subscriptions, timers) and emits one join-error
\* "Room is full" to the caller alone; and a socket becomes a member of a
\* room only in the step that handles its own join-room for that room, so a
\* refused joiner is never admitted later by a slot freeing up.
C6_FullJoinRejected ==
  [][ /\ \A r \in DOMAIN rooms :
           (lastOp'.op = "join-room" /\ lastOp'.room = r /\ Len(rooms[r].users) >= 2)
             => /\ UNCHANGED <<rooms, socketToRoom, joined, timers, connected, msgs>>
                /\ out' = OnlyTo(lastOp'.conn, <<FullError>>)
      /\ \A c \in Conns : \A r \in DOMAIN rooms' :
           (c \in MembersOf(rooms', r) /\ ~(r \in DOMAIN rooms /\ c \in Members(r)))
             => (lastOp'.op = "join-room" /\ lastOp'.conn = c /\ lastOp'.room = r)
    ]_vars

\* a socket outside a full room has just been refused, while another room
\* has a member
C6_Witness ==
  /\ lastOp.op = "join-room"
  /\ lastOp.room \in DOMAIN rooms
  /\ Len(rooms[lastOp.room].users) = 2
  /\ lastOp.conn \notin Members(lastOp.room)
  /\ out = OnlyTo(lastOp.conn, <<FullError>>)
  /\ \E r \in DOMAIN rooms \ {lastOp.room} : Members(r) # {}

\* C7: a join-room from a socket that is already in the room's users map is
\* answered with join-error "Already in this room" and changes nothing.
C7_AlreadyMemberRejected ==
  [][ \A r \in DOMAIN rooms :
        (lastOp'.op = "join-room" /\ lastOp'.room = r /\ lastOp'.conn \in Members(r))
          => /\ UNCHANGED <<rooms, socketToRoom, joined, timers>>
             /\ out' = OnlyTo(lastOp'.conn, <<AlreadyError>>)
    ]_vars

\* C8: a join-room for an id that is not in the registry emits join-error
\* "Room not found" to the caller alone and changes nothing: no room is
\* created and nobody's membership changes.
C8_UnknownRoomRejected ==
  [][ (lastOp'.op = "join-room" /\ lastOp'.room \notin DOMAIN rooms)
        => /\ UNCHANGED <<rooms, socketToRoom, joined, timers, connected, msgs>>
           /\ out' = OnlyTo(lastOp'.conn, <<NotFoundError>>)
    ]_vars

\* a join for an unknown id has just been refused while other sockets sit
\* in a room
C8_Witness ==
  /\ lastOp.op = "join-room"
  /\ lastOp.room \notin DOMAIN rooms
  /\ out = OnlyTo(lastOp.conn, <<NotFoundError>>)
  /\ \E r \in DOMAIN rooms : Members(r) \ {lastOp.conn} # {}

C10_RejoinSurvivesTimer ==
  [][ /\ \A r \in DOMAIN rooms :
           (/\ lastOp'.op = "join-room"
            /\ lastOp'.room = r
            /\ rooms[r].users = <<>>
            /\ timers[r] > 0)
             => /\ r \in DOMAIN rooms'
                /\ MembersOf(rooms', r) = {lastOp'.conn}
                /\ Len(rooms'[r].users) = 1
                /\ rooms'[r].host = lastOp'.conn
                /\ EventsIn(out', lastOp'.conn, "joined-room") # <<>>
      /\ \A r \in DOMAIN rooms :
           (lastOp'.op = "timer" /\ lastOp'.room = r /\ rooms[r].users # <<>>)
             => (r \in DOMAIN rooms' /\ rooms'[r] = rooms[r])
    ]_vars

\* the timer of a room has just fired while the room held its re-joined
\* only user, who is the host, and the room is still there
C10_Witness ==
  /\ lastOp.op = "timer"
  /\ lastOp.room \in DOMAIN rooms
  /\ Len(rooms[lastOp.room].users) = 1
  /\ rooms[lastOp.room].host \in Members(lastOp.room)

\* C11: a join of a room that waits for its removal cancels the callback
\* armed when the room emptied, so a room is never deleted by a callback
\* that was armed before the last successful join of the room: after that
\* join and a second emptying, only the callback armed at the second
\* emptying deletes the room.
C11_StaleTimerNeverDeletes ==
  [][ \A r \in DOMAIN rooms :
        (lastOp'.op = "timer" /\ lastOp'.room = r /\ r \notin DOMAIN rooms')
          => staleTimers[r] = 0
    ]_vars

\* C12: when leave-room of a socket for a room it was in has been handled,
\* a second leave-room for the same room, or its disconnect, coming next
\* leaves rooms, socketToRoom and timers as they are and sends no event:
\* the other member has got partner-left once, and no second room-update
\* or timer.
C12_LeaveIdempotent ==
  [][ (/\ lastOp.op = "leave-room"
       /\ lastOp.wasMember
       /\ lastOp'.op \in {"leave-room", "disconnect"}
       /\ lastOp'.conn = lastOp.conn
       /\ lastOp'.op = "leave-room" => lastOp'.room = lastOp.room)
        => /\ UNCHANGED <<rooms, socketToRoom, timers>>
           /\ out' = NoEvents
    ]_vars

\* C13: a socket whose disconnect has been handled is in the users map of
\* no room.
C13_DisconnectedInNoRoom ==
  \A c \in Conns : ~connected[c] => RoomsOf(c) = {}

\* the dictionary has a key for the pair that the lowercased text contains
HasEntry(text, sourceLang, targetLang) ==
  /\ HasTable(sourceLang, targetLang)
  /\ \E i \in 1..Len(LangDict(sourceLang, targetLang)) :
       Includes(Trim(ToLowerCase(text)), LangDict(sourceLang, targetLang)[i][1])

\* the provider answered with a failure or without a translated text
TierFailed(reply) == ~reply.ok \/ reply.translatedText \in {<<>>, NoText}

AllTiersFailed ==
  /\ Len(call.replies) = 3
  /\ \A i \in 1..3 : TierFailed(call.replies[i])

\* C14: a call of translateText with a string text never throws, whatever
\* the language pair and whatever the three providers answer; and when all
\* three providers have failed and the dictionary has no entry for the text
\* the call returns the text it was given.
C14_NeverThrows ==
  IsString(call.text) =>
    /\ call.state # "threw"
    /\ (call.state = "returned" /\ AllTiersFailed
          /\ ~HasEntry(call.text, call.sourceLang, call.targetLang))
         => call.value = call.text

\* C15: a call of translateText with a text that is not blank never returns
\* the empty string, whatever the providers answer.
C15_NeverEmpty ==
  (call.state = "returned" /\ IsString(call.text) /\ Trim(call.text) # <<>>)
    => call.value # <<>>

\* C16: in one call the providers are requested in the order 1, 2, 3, each
\* at most once; a provider is requested only after every earlier one has
\* failed; the first answer that carries a translated text ends the call
\* with that text and no later provider is requested; the dictionary is
\* used only after the third provider has failed.
C16_TiersInOrder ==
  /\ Len(call.calls) <= 3
  /\ \A i \in 1..Len(call.calls) : call.calls[i] = i
  /\ Len(call.replies) = IF call.state = "await" THEN Len(call.calls) - 1 ELSE Len(call.calls)
  /\ \A i \in 1..Len(call.replies) :
       /\ i < Len(call.calls) => TierFailed(call.replies[i])
       /\ ~TierFailed(call.replies[i]) =>
            /\ call.state = "returned"
            /\ call.value = call.replies[i].translatedText
            /\ Len(call.calls) = i
  /\ (call.state = "returned" /\ Len(call.replies) = 3 /\ TierFailed(call.replies[3]))
       => call.value = fallbackTranslation(call.text, call.sourceLang, call.targetLang)

\* the first provider failed, the second answered with a translation: the
\* call returned it without requesting the third
C16_Witness ==
  /\ call.state = "returned"
  /\ call.calls = <<1, 2>>
  /\ call.replies = <<Fail, Body(ProvHola)>>
  /\ call.value = ProvHola

\* C17: a call of translateText whose two languages are equal, or whose
\* text is empty or only white space, returns the text as it is and
\* requests no provider.
C17_IdentityNoCall ==
  (/\ call.state # "idle"
   /\ \/ call.sourceLang = call.targetLang
      \/ IsString(call.text) /\ Trim(call.text) = <<>>)
    => /\ call.state = "returned"
       /\ call.value = call.text
       /\ call.calls = <<>>

\* a blank text for two different languages has come back unchanged
C17_Witness ==
  /\ call.state = "returned"
  /\ call.text = TxtBlank
  /\ call.sourceLang # call.targetLang
  /\ call.value = TxtBlank
  /\ call.calls = <<>>

\* C18: the receive-message events that the partner gets for the messages
\* of one sender come in the order of the send-message events: when the
\* delivery of a message reaches the partner, no later message of the same
\* sender has been delivered to that partner yet.
C18_FifoPerSender ==
  \A i \in 1..Len(msgs) : \A j \in 1..Len(msgs) :
    (/\ i < j
     /\ msgs[i].conn = msgs[j].conn
     /\ msgs[i].room = msgs[j].room
     /\ msgs[i].receiver # NoUser
     /\ msgs[j].receiver # NoUser
     /\ msgs[i].receiver.id = msgs[j].receiver.id
     /\ FinishedNow(i)
     /\ msgs[i].got[msgs[i].receiver.id] = 1)
      => msgs[j].got[msgs[j].receiver.id] = 0

\* C19: when the translation of a message completes, a receive-message
\* event is delivered only if the sender is still in the users of the room,
\* and only to sockets that are in the users of the room.
C19_DiscardedWhenSenderLeft ==
  \A mid \in 1..Len(msgs) :
    (FinishedNow(mid) /\ lastOp.op = "provider-reply") =>
      \A c \in Conns :
        Events(c, "receive-message") # <<>> =>
          /\ msgs[mid].room \in DOMAIN rooms
          /\ msgs[mid].conn \in Members(msgs[mid].room)
          /\ c \in Members(msgs[mid].room)

\* C20: a send-message from the only member of its room emits one event
\* and no more, the echo to the sender with the text as sent, the sender's
\* language twice and shouldSpeak = false, and does not call translateText:
\* the handler ends in the same step and waits for no provider.
C20_AloneEchoOnly ==
  (/\ lastOp.op = "send-message"
   /\ lastOp.room \in DOMAIN rooms
   /\ Members(lastOp.room) = {lastOp.conn})
    => LET m == msgs[lastOp.msg]
           e == out[lastOp.conn][1]
       IN /\ m.status = "echoed"
          /\ m.tier = 0
          /\ \A c \in Conns : Len(out[c]) = IF c = lastOp.conn THEN 1 ELSE 0
          /\ e.ev = "receive-message"
          /\ e.message = m.message
          /\ e.senderId = lastOp.conn
          /\ e.originalLang = MapGet(rooms[lastOp.room].users, lastOp.conn).language
          /\ e.translatedLang = e.originalLang
          /\ e.shouldSpeak = FALSE

\* the only member of a room has sent a text and got its echo, while
\* another socket is connected outside the room
C20_Witness ==
  /\ lastOp.op = "send-message"
  /\ lastOp.room \in DOMAIN rooms
  /\ Members(lastOp.room) = {lastOp.conn}
  /\ msgs[lastOp.msg].message = TxtHello
  /\ Len(out[lastOp.conn]) = 1
  /\ out[lastOp.conn][1].message = TxtHello
  /\ \E c \in Conns \ {lastOp.conn} : connected[c]

PartnerJoinedOf(u) ==
  [ev |-> "partner-joined", partnerId |-> u.id, partnerLang |-> u.language,
   partnerName |-> u.name]

C23_CreatorIsSoleMember ==
  lastOp.op = "create-room" =>
    /\ Len(rooms[lastOp.room].users) = 1
    /\ rooms[lastOp.room].host # Null
    /\ rooms[lastOp.room].host \in Members(lastOp.room)

\* the transports registered under the peer of socket c
OwnTransports(s, c) == IF c \in DOMAIN s.peers THEN s.objs[s.peers[c]].transports ELSE {}

\* C24: a connect-transport request of a registered peer that names an id
\* which is not among the transports of that peer (an unknown id, or the
\* transport of another peer) is answered "Transport not found" to the
\* caller alone, and the relay is not asked to connect anything: no
\* transport gets a connect call and no handler is left waiting for the relay.
C24_ForeignTransportNotFound ==
  [][ (/\ sfu'.op.op = "connect-transport"
       /\ sfu'.op.conn \in DOMAIN sfu.peers
       /\ sfu'.op.arg \notin OwnTransports(sfu, sfu'.op.conn))
      => /\ sfu'.out = Emit(NoEvents, {sfu'.op.conn}, Failure("Transport not found"))
         /\ sfu'.handles = sfu.handles
         /\ sfu'.pending = sfu.pending
         /\ sfu'.objs = sfu.objs /\ sfu'.peers = sfu.peers /\ sfu'.rooms = sfu.rooms ]_vars

\* a peer has just been refused the open transport of another peer, which
\* the relay has never been asked to connect
C24_Witness ==
  /\ sfu.op.op = "connect-transport"
  /\ sfu.op.conn \in DOMAIN sfu.peers
  /\ sfu.op.arg \in 1..Len(sfu.handles)
  /\ sfu.handles[sfu.op.arg].kind = "transport"
  /\ ~sfu.handles[sfu.op.arg].closed
  /\ sfu.handles[sfu.op.arg].connects = 0
  /\ sfu.handles[sfu.op.arg].owner # sfu.peers[sfu.op.conn]
  /\ sfu.handles[sfu.op.arg].owner \in {sfu.peers[d] : d \in DOMAIN sfu.peers}
  /\ sfu.out[sfu.op.conn] = <<Failure("Transport not found")>>
  /\ sfu.pending = NoPending

\* C25: when the relay rejects a connect, the caller gets the failure
\* through its callback and nothing else changes: the transport stays open
\* and registered under its peer object; and every connect-transport
\* request that names a transport of the caller is passed to the relay,
\* whatever the relay answered before.
C25_RejectedConnectKeepsTransport ==
  [][ /\ (/\ sfu'.op.op = "relay-reply"
          /\ sfu'.op.of = "connect-transport"
          /\ ~sfu'.op.ok)
         => LET p == sfu.pending
            IN /\ sfu'.out = Emit(NoEvents, ToSelf(sfu.connected, p.conn), Failure("relay"))
               /\ sfu'.handles[p.transport].closed = sfu.handles[p.transport].closed
               /\ sfu'.objs = sfu.objs /\ sfu'.peers = sfu.peers /\ sfu'.rooms = sfu.rooms
               /\ \A k \in 1..Len(sfu.handles) : sfu'.handles[k].closed = sfu.handles[k].closed
               /\ Len(sfu'.handles) = Len(sfu.handles)
      /\ (/\ sfu'.op.op = "connect-transport"
          /\ sfu'.op.arg \in OwnTransports(sfu, sfu'.op.conn))
         => /\ sfu'.pending = Suspend("connect-transport", sfu'.op.conn,
                                      sfu.peers[sfu'.op.conn], Null, sfu'.op.arg)
            /\ sfu'.handles[sfu'.op.arg].connects = sfu.handles[sfu'.op.arg].connects + 1 ]_vars

\* the relay has rejected a connect of an open transport, the transport is
\* still registered under the caller's peer, and the caller's next connect
\* of it is now before the relay
C25_Witness ==
  /\ sfu.pending.op = "connect-transport"
  /\ sfu.op.op = "connect-transport"
  /\ sfu.op.arg = sfu.pending.transport
  /\ sfu.handles[sfu.pending.transport].rejects = 1
  /\ sfu.handles[sfu.pending.transport].connects = 2
  /\ ~sfu.handles[sfu.pending.transport].closed
  /\ sfu.pending.transport \in OwnTransports(sfu, sfu.pending.conn)

\* the members of room r in the room registry, none when r was deleted
CurrentMembers(s, r) == IF r \in DOMAIN s.rooms THEN SfuMembersOf(s, r) ELSE {}

NewProducerEvent(c, h) ==
  [ev |-> "new-producer", peerId |-> c, producerId |-> h, kind |-> "audio"]

C27_CannotConsume ==
  [][ (/\ sfu'.op.op = "consume-audio"
       /\ ~sfu'.op.can
       /\ sfu'.op.conn \in DOMAIN sfu.peers
       /\ sfu.objs[sfu.peers[sfu'.op.conn]].roomId \in DOMAIN sfu.rooms
       /\ sfu'.op.arg \in OwnTransports(sfu, sfu'.op.conn))
      => /\ sfu'.out = Emit(NoEvents, {sfu'.op.conn}, Failure("Cannot consume"))
         /\ sfu'.handles = sfu.handles
         /\ sfu'.objs = sfu.objs
         /\ sfu'.rooms = sfu.rooms
         /\ sfu'.peers = sfu.peers
         /\ sfu'.pending = sfu.pending ]_vars

\* socket 2 has just been refused, on its own transport, while its room
\* holds an open producer of socket 1; nothing waits for the relay
C27_Witness ==
  /\ sfu.op.op = "consume-audio"
  /\ ~sfu.op.can
  /\ sfu.op.conn = 2
  /\ sfu.out[2] = <<Failure("Cannot consume")>>
  /\ sfu.pending = NoPending
  /\ 1 \in DOMAIN sfu.rooms
  /\ \E h \in sfu.rooms[1].audioProducers :
       ~sfu.handles[h].closed /\ sfu.handles[h].owner = 1
  /\ \A k \in 1..Len(sfu.handles) : sfu.handles[k].kind # "consumer"

\* the peer objects that peers holds for some socket
RegisteredObjs(s) == {s.peers[c] : c \in DOMAIN s.peers}

\* C28: every open transport, producer or consumer belongs to a peer object
\* that is registered in peers: once a socket has left its room or has
\* disconnected, and once its peer object has been replaced by a second
\* create-room or join-room, nothing made for that object is still open.
C28_NoOpenHandleWithoutPeer ==
  \A k \in 1..Len(sfu.handles) :
    ~sfu.handles[k].closed => sfu.handles[k].owner \in RegisteredObjs(sfu)

\* C29: every translateText call that has reached a provider eventually
\* returns (or throws), also when that provider never answers.
C29_EveryCallReturns ==
  (call.state \in {"await", "hung"}) ~> (call.state \in {"returned", "threw"})

\* the first user of a users map other than socket c
FirstOther(users, c) ==
  users[CHOOSE i \in 1..Len(users) :
          /\ users[i].id # c
          /\ \A k \in 1..Len(users) : users[k].id # c => i <= k]

\* C30: when a member with a partner sends a text, translateText is called
\* with the language the room stores for the sender as source and the one
\* it stores for the partner as target, whatever originalLang and
\* translatedLang the payload carries; and the event delivered to the
\* partner carries the sender's socket id, those two languages, the
\* original text and shouldSpeak = true.
C30_DeliveryFromRegistry ==
  /\ [][ (/\ lastOp'.op = "send-message"
          /\ Len(msgs') = Len(msgs) + 1
          /\ msgs'[Len(msgs')].status # "rejected"
          /\ msgs'[Len(msgs')].receiver # NoUser)
         => LET m == msgs'[Len(msgs')]
                users == rooms[m.room].users
            IN /\ m.args.sourceLang = MapGet(users, m.conn).language
               /\ m.args.targetLang = FirstOther(users, m.conn).language ]_vars
  /\ [](\A mid \in 1..Len(msgs) :
          (FinishedNow(mid) /\ msgs[mid].receiver # NoUser) =>
            LET m == msgs[mid]
                es == Events(m.receiver.id, "receive-message")
            IN \A i \in 1..Len(es) :
                 ~es[i].isOwnMessage =>
                   /\ es[i].senderId = m.conn
                   /\ es[i].shouldSpeak
                   /\ es[i].originalLang = m.sender.language
                   /\ es[i].translatedLang = m.receiver.language
                   /\ IF es[i].isFallback
                        THEN es[i].message = m.message
                        ELSE /\ es[i].originalMessage = m.message
                             /\ es[i].message = Translated(mid))

\* the partner has got the translation of a text whose payload named other
\* languages than the room stores: the event carries the stored ones, the
\* sender's id and the original text
C30_Witness ==
  \E mid \in 1..Len(msgs) :
    LET m == msgs[mid]
    IN /\ FinishedNow(mid)
       /\ lastOp.op = "provider-reply"
       /\ m.receiver # NoUser
       /\ m.payload.originalLang # m.sender.language
       /\ m.payload.translatedLang # m.receiver.language
       /\ m.sender.language # m.receiver.language
       /\ Len(Events(m.receiver.id, "receive-message")) = 1
       /\ LET e == Events(m.receiver.id, "receive-message")[1]
          IN /\ e.senderId = m.conn
             /\ e.originalLang = m.sender.language
             /\ e.translatedLang = m.receiver.language
             /\ e.originalMessage = m.message
             /\ e.message # m.message
             /\ e.shouldSpeak

\* the value the dictionary is described to give: the entry of the key
\* that equals the trimmed lowercased text, else the value of the first key
\* in table order that the lowercased text contains, else the text itself;
\* the text itself for a pair without a table
DescribedFallback(text, sourceLang, targetLang) ==
  LET lowerText == Trim(ToLowerCase(text))
      table == LangDict(sourceLang, targetLang)
      matches(i) == Includes(lowerText, table[i][1])
  IN IF ~HasTable(sourceLang, targetLang) THEN text
     ELSE IF \E i \in 1..Len(table) : table[i][1] = lowerText
       THEN table[CHOOSE i \in 1..Len(table) : table[i][1] = lowerText][2]
     ELSE IF \E i \in 1..Len(table) : matches(i)
       THEN table[CHOOSE i \in 1..Len(table) :
                    matches(i) /\ \A k \in 1..(i - 1) : ~matches(k)][2]
     ELSE text

\* C31: when all three providers have failed for a string text, the call
\* returns what the dictionary is described to give: the exact entry, else
\* the first contained key's value, else the original text; the original
\* text for a pair without a table ("hello" from en to es gives "hola").
C31_FallbackAsDescribed ==
  (call.state = "returned" /\ AllTiersFailed /\ IsString(call.text))
    => call.value = DescribedFallback(call.text, call.sourceLang, call.targetLang)

\* C32: while a room has two members no step changes the language stored
\* for a member that stays in it, and a join-room naming that room, from a
\* member or from anyone else, with whatever language, is answered "Room is
\* full (max 2 users)" and leaves every room record as it was.
C32_LanguageFixedAtTwo ==
  [][ \A r \in DOMAIN rooms :
        Len(rooms[r].users) = 2 =>
          /\ \A i \in 1..2 :
               LET u == rooms[r].users[i]
               IN (r \in DOMAIN rooms' /\ MapHas(rooms'[r].users, u.id))
                    => MapGet(rooms'[r].users, u.id).language = u.language
          /\ (lastOp'.op = "join-room" /\ lastOp'.room = r)
               => /\ rooms' = rooms
                  /\ socketToRoom' = socketToRoom
                  /\ out' = OnlyTo(lastOp'.conn, <<JoinError("Room is full (max 2 users)")>>) ]_vars

\* a member of a two-member room has asked to join it again; its stored
\* language is the one of its first join and it has been answered that the
\* room is full
C32_Witness ==
  /\ lastOp.op = "join-room"
  /\ lastOp.room \in DOMAIN rooms
  /\ Len(rooms[lastOp.room].users) = 2
  /\ MapHas(rooms[lastOp.room].users, lastOp.conn)
  /\ rooms[lastOp.room].users[1].language # rooms[lastOp.room].users[2].language
  /\ out = OnlyTo(lastOp.conn, <<JoinError("Room is full (max 2 users)")>>)

\* C33: the transports of a peer object change only in steps that handle a
\* request of the socket the object was made for: a create-transport of
\* socket c adds no transport to the peer of another socket, whatever
\* peerId its payload carries.
C33_TransportsOnlyByOwner ==
  [][ \A o \in 1..Len(sfu.objs) :
        sfu'.objs[o].transports # sfu.objs[o].transports
          => sfu'.op.conn = sfu.objs[o].id ]_vars

\* the members of room r in rs, none when rs has no such room
MembersIn(rs, r) == IF r \in DOMAIN rs THEN MembersOf(rs, r) ELSE {}

\* C34: a join-room, leave-room, send-message or speech-data that names
\* room R, accepted or rejected, and the completion of a send-message
\* naming R, leaves the record (members, host) of every other room as it
\* was and delivers nothing to a socket that is a member of another room
\* and not of R, the caller excepted.
C34_OtherRoomsUntouched ==
  [][ lastOp'.op \in {"join-room", "leave-room", "send-message", "speech-data",
                      "provider-reply"}
      => /\ \A r \in DOMAIN rooms \ {lastOp'.room} :
              r \in DOMAIN rooms' /\ rooms'[r] = rooms[r]
         /\ \A x \in Conns \ {lastOp'.conn} :
              (/\ x \notin MembersIn(rooms, lastOp'.room)
               /\ x \notin MembersIn(rooms', lastOp'.room)
               /\ \E r \in DOMAIN rooms' \ {lastOp'.room} : x \in MembersOf(rooms', r))
                => out'[x] = <<>> ]_vars

\* socket c is not in the users of room roomId of the chat server, or
\* there is no such room
NotMember(c, roomId) == roomId \notin DOMAIN rooms \/ ~MapHas(rooms[roomId].users, c)

\* socket c is not a peer of room roomId of the mediasoup server, or there
\* is no such room
SfuNotMember(c, roomId) == roomId \notin DOMAIN sfu.rooms \/ c \notin SfuMembers(roomId)

\* a step of the chat server's send-message or speech-data from a
\* non-member emits nothing and leaves rooms, mappings and timers as they were
ChatNonMemberStep ==
  (/\ lastOp'.op \in {"send-message", "speech-data"}
   /\ server' # server
   /\ NotMember(lastOp'.conn, lastOp'.room))
  => /\ out' = NoEvents
     /\ UNCHANGED <<rooms, socketToRoom, joined, connected, timers, staleTimers>>

\* a step of the mediasoup server's send-message from a non-member emits
\* nothing and leaves rooms, peers and handles as they were
SfuNonMemberStep ==
  (/\ sfu'.op.op = "send-message"
   /\ sfu' # sfu
   /\ SfuNotMember(sfu'.op.conn, sfu'.op.arg))
  => /\ sfu'.out = NoEvents
     /\ [sfu' EXCEPT !.out = NoEvents, !.op = Null]
          = [sfu EXCEPT !.out = NoEvents, !.op = Null]

\* the part of C37 that is about the chat server
ChatNonMemberSilent == [][ChatNonMemberStep]_vars

ChatNonMemberWitness ==
  /\ lastOp.op \in {"send-message", "speech-data"}
  /\ lastOp.room \in DOMAIN rooms
  /\ Len(rooms[lastOp.room].users) = 1
  /\ ~MapHas(rooms[lastOp.room].users, lastOp.conn)
  /\ out = NoEvents

\* C37: a send-message or speech-data from a connection that is not a
\* member of the room it names, or that names a room that does not exist,
\* sends no event to any connection and changes no state, in the chat
\* server and in the mediasoup server.
C37_NonMemberSilent == [][ChatNonMemberStep /\ SfuNonMemberStep]_vars

\* C38: a leave-room that names an existing room whose users do not
\* include the caller changes nothing: the members and host of every room
\* and the socketToRoom map stay as they were, nobody is sent partner-left
\* or room-update, and no timer is armed.
C38_ForeignLeaveIsNoOp ==
  [][ (/\ lastOp'.op = "leave-room"
       /\ server' # server
       /\ lastOp'.room \in DOMAIN rooms
       /\ ~lastOp'.wasMember)
      => /\ rooms' = rooms
         /\ socketToRoom' = socketToRoom
         /\ timers' = timers
         /\ \A x \in Conns : /\ EventsIn(out', x, "partner-left") = <<>>
                              /\ EventsIn(out', x, "room-update") = <<>> ]_vars

\* room r is in the registry and has no users
EmptyRoom(r) == r \in DOMAIN rooms /\ Len(rooms[r].users) = 0

\* an empty room that a leaveRoom has armed a timer for is removed or
\* joined again
ArmedEmptyRoomRemoved ==
  \A r \in ChatRoomIds :
     (EmptyRoom(r) /\ timers[r] > 0) ~> (r \notin DOMAIN rooms \/ ~EmptyRoom(r))

\* C39: a room without members that nobody joins again is eventually
\* removed from the registry when timer callbacks are run fairly, a room
\* that was created and never joined included.
C39_EmptyRoomRemoved ==
  \A r \in ChatRoomIds : EmptyRoom(r) ~> (r \notin DOMAIN rooms \/ ~EmptyRoom(r))

\* the calls of speakText in client c that the handlers in bys made for
\* the utterance with transcript t and that started speech
SpeechStarts(c, t, bys) ==
  SelectSeq(client.spoken[c], LAMBDA s : s.of = t /\ s.by \in bys /\ s.started)

\* client c has handled the translated message of utterance t
HandledDelivery(c, t) ==
  \E mid \in 1..Len(msgs) :
     /\ msgs[mid].message = t /\ msgs[mid].status = "done" /\ msgs[mid].receiver.id = c
     /\ \A i \in 1..Len(client.inbox[c]) :
           ~(client.inbox[c][i].ev = "receive-message" /\ client.inbox[c][i].mid = mid)

\* C35: for an utterance that P's client sent with send-message and
\* speech-data, the client of the partner starts text-to-speech once: the
\* receive-message handler and the partner-speech handler never both
\* start speech for it, and one of them has once the message is handled.
C35_SpokenOncePerUtterance ==
  \A n \in 1..Len(client.utterances) : \A c \in ClientConns \ {client.utterances[n].by} :
     LET starts == SpeechStarts(c, client.utterances[n].text,
                                {"receive-message", "partner-speech"})
     IN /\ Len(starts) <= 1
        /\ HandledDelivery(c, client.utterances[n].text) => Len(starts) = 1

\* C36: the client an utterance was spoken in never calls speakText for
\* it, whichever event the server sends back to it (the receive-message
\* echo, partner-speech, translation-result).
C36_SenderNeverSpeaksOwn ==
  \A n \in 1..Len(client.utterances) :
     \A i \in 1..Len(client.spoken[client.utterances[n].by]) :
        client.spoken[client.utterances[n].by][i].of # client.utterances[n].text

\* the part of C36 that holds: against Server/server.js the sender's
\* client never calls speakText for its own utterance
SenderSilentWithServerJs == client.program = ServerJs => C36_SenderNeverSpeaksOwn

====
